---- MODULE Spec2Model ----
(***************************************************************************)
(* ARQV30 Enhanced v3.0: the session auto-save store                       *)
(* (services/auto_save_manager.py) and the three-step workflow routes      *)
(* (routes/enhanced_workflow.py), as state machines.                       *)
(*                                                                         *)
(* Files are modelled by their paths and parsed contents.  A write to a    *)
(* file has three outcomes, decided by the condition of the directory it   *)
(* goes to: "ok" (the file holds the new content), "unwritten" (mkdir or   *)
(* open() raised, the file is as before) and "truncated" (open(path, 'w')  *)
(* succeeded and the dump raised: the file exists and does not parse).     *)
(* Python's "" is the empty sequence, a path is the sequence of its        *)
(* components, and an optional record ({} or a record) is a sequence of at *)
(* most one record.                                                        *)
(***************************************************************************)
EXTENDS Integers, Sequences, FiniteSets, TLC

VARIABLES
    session_data,   \* AutoSaveManager.session_data: session id -> session
    unified_file,   \* analyses_data/<session_id>_unified.json, by session id
    mirror_files,   \* analyses_data/relatorios_intermediarios/<cat>/<file>
    error_files,    \* analyses_data/logs/erro_<operacao>_<time>.json
    now,            \* the clock that datetime.now() and time.time() read
    generated,      \* how many session ids have been generated so far
    lastOp,         \* the last store call: its arguments and what it returned
    disk,           \* the condition of each directory that is written to
    ops,            \* events so far (bounds the run)
    history,        \* every step ever recorded, by session id, in order
    tasks,          \* the background threads the workflow routes started
    markers,        \* files under analyses_data/<session_id>/
    lastResp,       \* the last HTTP response
    requests,       \* HTTP requests so far (bounds the run)
    services_ok,    \* whether get_services() can import the collaborators
    report,         \* a call of _generate_collection_report: inputs, result
    engine,         \* a run of MassiveSearchEngine.execute_massive_search
    social,         \* a run of SocialMediaImageExtractor.extract_all_social_images
    finder,         \* a ViralImageFinder: its keys, cursor, failed set, last call
    orch,           \* a call of Orchestrator.execute_workflow or process_results
    insta,          \* an InstagramPlaywrightExtractor: its page and last extraction
    threads         \* threads inside AutoSaveManager.salvar_etapa

storeVars == <<session_data, unified_file, mirror_files, error_files, now,
               generated, lastOp, disk, ops, history>>
wfVars == <<tasks, markers, lastResp, requests, services_ok>>
lateVars == <<finder, orch, insta, threads>>
svcVars == <<report, engine, social, lateVars>>
vars == <<storeVars, wfVars, svcVars>>

-----------------------------------------------------------------------------
(* Bounds of the model. *)
MaxOps == 3
MaxRequests == 2
MaxTasks == 1

(* Inputs. *)
None == "None"
Sessions == {"s1", "s2"}
GenIds == <<"g1", "g2", "g3", "g4", "g5", "g6", "g7", "g8", "g9", "g10", "g11",
            "g12">>
StepInputs ==
    { [nome |-> "x", dados |-> [a |-> 1], categoria |-> "t"],
      [nome |-> "x", dados |-> [a |-> 2], categoria |-> "t"],
      [nome |-> "y", dados |-> [a |-> 1], categoria |-> "geral"] }
ModuleInputs ==
    { [nome |-> "m", dados |-> [v |-> 1]],
      [nome |-> "m", dados |-> [v |-> 2]],
      [nome |-> "n", dados |-> [v |-> 1]] }
BulkPayloads ==
    { [search_results |-> <<"r1">>, viral_content |-> <<"v1">>],
      [analysis_data |-> [k |-> "a1"], metadata |-> [total_sources |-> 1]],
      [metadata |-> [processing_phases |-> <<>>, errors |-> <<>>]] }
Operacoes == {"op"}
IOOutcomes == {"ok", "unwritten", "truncated"}
StoreDirs == {"analyses_data", "relatorios_intermediarios", "logs"}
Dirs == StoreDirs \cup {"session_dir"}

Range(f) == {f[i] : i \in DOMAIN f}
IsPrefix(a, b) == Len(a) <= Len(b) /\ SubSeq(b, 1, Len(a)) = a

(* dict.update(u) and d[k] = v *)
DictUpdate(d, u) ==
    [k \in DOMAIN d \cup DOMAIN u |-> IF k \in DOMAIN u THEN u[k] ELSE d[k]]
DictSet(d, k, v) ==
    [j \in DOMAIN d \cup {k} |-> IF j = k THEN v ELSE d[j]]

-----------------------------------------------------------------------------
(* AutoSaveManager._create_session_structure, the second definition of the *)
(* class body, which is the one in force. *)
create_session_structure(session_id, t) ==
    [ session_id |-> session_id,
      created_at |-> t,
      last_updated |-> t,
      methodology |-> "ARQV30_Enhanced_v3.0",
      extraction_steps |-> <<>>,
      module_data |-> <<>>,
      search_results |-> <<>>,
      analysis_data |-> <<>>,
      screenshots |-> <<>>,
      viral_content |-> <<>>,
      synthesis_results |-> <<>>,
      final_modules |-> <<>>,
      metadata |-> [ total_sources |-> 0,
                     processing_phases |-> <<>>,
                     errors |-> <<>>,
                     statistics |-> [created |-> t] ] ]

(* "if session_id not in self.session_data: self.session_data[session_id] = *)
(* self._create_session_structure(session_id)" *)
ensure_session(sd, session_id, t) ==
    IF session_id \in DOMAIN sd THEN sd
    ELSE DictSet(sd, session_id, create_session_structure(session_id, t))

(* session_id = f"session_{int(time.time() * 1000)}_{uuid.uuid4().hex[:8]}": *)
(* an id no caller has used before. *)
generate_session_id(n) == GenIds[n + 1]

(* The paths the store writes. *)
unified_path(session_id) == <<"analyses_data", session_id \o "_unified.json">>
mirror_path(nome_etapa, categoria, t) ==
    [ dir |-> <<"analyses_data", "relatorios_intermediarios", categoria>>,
      name |-> <<nome_etapa, ToString(t)>> ]
erro_path(operacao, t) ==
    [ dir |-> <<"analyses_data", "logs">>, name |-> <<"erro", operacao, ToString(t)>> ]

(* What a file holds after a write with the given outcome. *)
Parsed(doc) == [parseable |-> TRUE, doc |-> <<doc>>]
Unparseable == [parseable |-> FALSE, doc |-> <<>>]
WriteFile(files, path, doc, outcome) ==
    CASE outcome = "ok" -> DictSet(files, path, Parsed(doc))
      [] outcome = "truncated" -> DictSet(files, path, Unparseable)
      [] OTHER -> files

(* A store that creates the session's file and never rewrites it. *)
save_unified_json_once(uf, sd, session_id, outcome) ==
    IF session_id \in DOMAIN uf THEN uf
    ELSE WriteFile(uf, session_id, sd[session_id], outcome)

(* AutoSaveManager._save_unified_json: a full rewrite of the session's file *)
(* from the in-memory session; a failure is logged and "" is returned. *)
save_unified_json(uf, sd, session_id, outcome) ==
    WriteFile(uf, session_id, sd[session_id], outcome)
save_unified_json_ret(session_id, outcome) ==
    IF outcome = "ok" THEN unified_path(session_id) ELSE <<>>

(* AutoSaveManager._save_individual_step: the file name is the step name *)
(* and the time of the write; neither the session id nor a counter is in it. *)
save_individual_step(mf, nome_etapa, etapa_data, categoria, t, outcome) ==
    WriteFile(mf, mirror_path(nome_etapa, categoria, t), etapa_data, outcome)

(* salvar_etapa, lines 87-100: the step record. metadata.data_size is *)
(* len(str(dados)), a function of dados, and processing_time is 0. *)
etapa_data(nome_etapa, categoria, t, dados) ==
    [ nome |-> nome_etapa, categoria |-> categoria, timestamp |-> t,
      dados |-> dados ]

(* A store that keeps one record per step name. *)
append_etapa_keyed(sess, etapa) ==
    [sess EXCEPT
        !.extraction_steps =
            IF \E i \in DOMAIN @ : @[i].nome = etapa.nome
            THEN [i \in DOMAIN @ |-> IF @[i].nome = etapa.nome THEN etapa ELSE @[i]]
            ELSE Append(@, etapa),
        !.last_updated = etapa.timestamp]

(* salvar_etapa, lines 102-110, on the session. *)
append_etapa(sess, etapa) ==
    [sess EXCEPT
        !.extraction_steps = Append(@, etapa),
        !.last_updated = etapa.timestamp,
        !.metadata.processing_phases =
            IF etapa.categoria \in Range(@) THEN @ ELSE Append(@, etapa.categoria)]

(* The record of a call: n counts the calls, existed tells whether the     *)
(* name was already in the in-memory session when the call was made.       *)
Call(op, session_id, nome, dados, categoria, ret, rec, existed) ==
    [ n |-> lastOp.n + 1, op |-> op, session_id |-> session_id, nome |-> nome,
      dados |-> dados, categoria |-> categoria, ret |-> ret, rec |-> rec,
      existed |-> existed ]
StepsOf(sd, session_id) ==
    IF session_id \in DOMAIN sd THEN sd[session_id].extraction_steps ELSE <<>>
ModulesOf(sd, session_id) ==
    IF session_id \in DOMAIN sd THEN sd[session_id].final_modules ELSE <<>>

(* AutoSaveManager.salvar_etapa.  Every statement of the try block is a    *)
(* dict or list operation on the session or a call that catches its own    *)
(* exceptions, so the except branch is not reached for the inputs here.    *)
(* g is the number of session ids generated before the call.               *)
salvar_etapa(sid_in, nome_etapa, dados, categoria, g) ==
    /\ sid_in = None => g < Len(GenIds)
    /\ LET uo == disk["analyses_data"]
           mo == disk["relatorios_intermediarios"]
           session_id == IF sid_in = None THEN generate_session_id(g)
                         ELSE sid_in
           sd1 == ensure_session(session_data, session_id, now)
           etapa == etapa_data(nome_etapa, categoria, now, dados)
           sd2 == [sd1 EXCEPT ![session_id] = append_etapa(@, etapa)]
       IN /\ session_data' = sd2
          /\ unified_file' = save_unified_json(unified_file, sd2, session_id, uo)
          /\ mirror_files' =
                save_individual_step(mirror_files, nome_etapa, etapa, categoria,
                                     now, mo)
          /\ generated' = IF sid_in = None THEN g + 1 ELSE g
          /\ history' = DictSet(history, session_id,
                                (IF session_id \in DOMAIN history
                                 THEN history[session_id] ELSE <<>>)
                                \o <<[etapa |-> etapa, unified |-> uo,
                                      mirror |-> mo]>>)
          /\ lastOp' = Call("salvar_etapa", session_id, nome_etapa, dados,
                            categoria, save_unified_json_ret(session_id, uo), <<>>,
                            \E e \in Range(StepsOf(session_data, session_id)) :
                                e.nome = nome_etapa)
    /\ UNCHANGED <<error_files, now, disk>>

SalvarEtapa ==
    /\ ops < MaxOps
    /\ ops' = ops + 1
    /\ \E sid \in Sessions, i \in StepInputs :
          salvar_etapa(sid, i.nome, i.dados, i.categoria, generated)
    /\ UNCHANGED <<wfVars, svcVars>>

(* AutoSaveManager.salvar_modulo: final_modules[nome_modulo] = {...}.  The  *)
(* record's metadata (word_count, data_size) is a function of dados. *)
modulo_data(nome_modulo, categoria, t, dados) ==
    [ nome |-> nome_modulo, categoria |-> categoria, timestamp |-> t,
      dados |-> dados ]
(* A store that keeps the first record saved under a module name. *)
put_modulo_setdefault(sess, modulo) ==
    [sess EXCEPT
        !.final_modules = IF modulo.nome \in DOMAIN @ THEN @
                          ELSE DictSet(@, modulo.nome, modulo),
        !.last_updated = modulo.timestamp]

put_modulo(sess, modulo) ==
    [sess EXCEPT
        !.final_modules = DictSet(@, modulo.nome, modulo),
        !.last_updated = modulo.timestamp]

salvar_modulo(session_id, nome_modulo, dados, categoria) ==
    /\ LET uo == disk["analyses_data"]
           sd1 == ensure_session(session_data, session_id, now)
           modulo == modulo_data(nome_modulo, categoria, now, dados)
           sd2 == [sd1 EXCEPT ![session_id] = put_modulo(@, modulo)]
       IN /\ session_data' = sd2
          /\ unified_file' = save_unified_json(unified_file, sd2, session_id, uo)
          /\ lastOp' = Call("salvar_modulo", session_id, nome_modulo, dados,
                            categoria, save_unified_json_ret(session_id, uo), <<>>,
                            nome_modulo \in DOMAIN ModulesOf(session_data, session_id))
    /\ UNCHANGED <<mirror_files, error_files, now, generated, disk, history>>

SalvarModulo ==
    /\ ops < MaxOps
    /\ ops' = ops + 1
    /\ \E sid \in Sessions, i \in ModuleInputs :
          salvar_modulo(sid, i.nome, i.dados, "modulo")
    /\ UNCHANGED <<wfVars, svcVars>>

(* AutoSaveManager.salvar_json_gigante, lines 196-217, on the session.  The *)
(* payloads here carry lists under search_results and viral_content, so     *)
(* both arms of the isinstance tests extend the list by the given items.    *)
merge_gigante(sess, dados, t) ==
    LET s1 == IF "search_results" \in DOMAIN dados
              THEN [sess EXCEPT !.search_results = @ \o dados.search_results]
              ELSE sess
        s2 == IF "analysis_data" \in DOMAIN dados
              THEN [s1 EXCEPT !.analysis_data = DictUpdate(@, dados.analysis_data)]
              ELSE s1
        s3 == IF "viral_content" \in DOMAIN dados
              THEN [s2 EXCEPT !.viral_content = @ \o dados.viral_content]
              ELSE s2
        s4 == IF "metadata" \in DOMAIN dados
              THEN [s3 EXCEPT !.metadata = DictUpdate(@, dados.metadata)]
              ELSE s3
    IN [s4 EXCEPT !.metadata.statistics = DictSet(@, "last_massive_save", t)]

salvar_json_gigante(dados, session_id) ==
    /\ LET uo == disk["analyses_data"]
           sd1 == ensure_session(session_data, session_id, now)
           sd2 == [sd1 EXCEPT ![session_id] = merge_gigante(@, dados, now)]
       IN /\ session_data' = sd2
          /\ unified_file' = save_unified_json(unified_file, sd2, session_id, uo)
          /\ lastOp' = Call("salvar_json_gigante", session_id, "", <<>>, "",
                            save_unified_json_ret(session_id, uo), <<>>, FALSE)
    /\ UNCHANGED <<mirror_files, error_files, now, generated, disk, history>>

SalvarJsonGigante ==
    /\ ops < MaxOps
    /\ ops' = ops + 1
    /\ \E sid \in Sessions, d \in BulkPayloads :
          salvar_json_gigante(d, sid)
    /\ UNCHANGED <<wfVars, svcVars>>

(* AutoSaveManager.salvar_screenshot.  file_size is the size of the file on *)
(* disk, 0 when the screenshot file does not exist. *)
screenshot_data(screenshot_path, url, t, file_size) ==
    [ path |-> screenshot_path, url |-> url, timestamp |-> t,
      file_size |-> file_size ]
append_screenshot(sess, shot) ==
    [sess EXCEPT !.screenshots = Append(@, shot)]

salvar_screenshot(screenshot_path, url, session_id, file_size) ==
    /\ LET uo == disk["analyses_data"]
           sd1 == ensure_session(session_data, session_id, now)
           shot == screenshot_data(screenshot_path, url, now, file_size)
           sd2 == [sd1 EXCEPT ![session_id] = append_screenshot(@, shot)]
       IN /\ session_data' = sd2
          /\ unified_file' = save_unified_json(unified_file, sd2, session_id, uo)
          /\ lastOp' = Call("salvar_screenshot", session_id, screenshot_path,
                            <<>>, "", save_unified_json_ret(session_id, uo), <<>>,
                            FALSE)
    /\ UNCHANGED <<mirror_files, error_files, now, generated, disk, history>>

SalvarScreenshot ==
    /\ ops < MaxOps
    /\ ops' = ops + 1
    /\ \E sid \in Sessions, size \in {0, 1} :
          salvar_screenshot("shot.png", "http://u", sid, size)
    /\ UNCHANGED <<wfVars, svcVars>>

(* AutoSaveManager.salvar_erro: the Error Record goes to the session's      *)
(* error list only when the session is already in the in-memory map; the    *)
(* standalone file is written after that, and a failure to write it makes   *)
(* the call return "". *)
erro_data(operacao, erro, t) ==
    [ operacao |-> operacao, erro |-> erro, tipo_erro |-> "Exception",
      timestamp |-> t ]
append_erro(sess, erro) ==
    [sess EXCEPT !.metadata.errors = Append(@, erro)]

salvar_erro(operacao, erro, session_id) ==
    LET uo == disk["analyses_data"]
        eo == disk["logs"]
        in_session == session_id # None /\ session_id \in DOMAIN session_data
        record == erro_data(operacao, erro, now)
        sd2 == IF in_session
               THEN [session_data EXCEPT ![session_id] = append_erro(@, record)]
               ELSE session_data
    IN /\ session_data' = sd2
       /\ unified_file' = IF in_session
                          THEN save_unified_json(unified_file, sd2, session_id, uo)
                          ELSE unified_file
       /\ error_files' = WriteFile(error_files, erro_path(operacao, now), record, eo)
       /\ lastOp' = Call("salvar_erro", session_id, operacao, <<>>, "",
                         IF eo = "ok" THEN <<"analyses_data", "logs", operacao>>
                         ELSE <<>>, <<>>, FALSE)
       /\ UNCHANGED <<mirror_files, now, generated, disk, history>>

SalvarErro ==
    /\ ops < MaxOps
    /\ ops' = ops + 1
    /\ \E sid \in Sessions \cup {None}, o \in Operacoes :
          salvar_erro(o, "boom", sid)
    /\ UNCHANGED <<wfVars, svcVars>>

(* A scan that returns the last record of the name. *)
last_named(steps, nome_etapa) ==
    IF \E i \in DOMAIN steps : steps[i].nome = nome_etapa
    THEN LET i == CHOOSE j \in DOMAIN steps :
                     /\ steps[j].nome = nome_etapa
                     /\ \A k \in (j + 1)..Len(steps) : steps[k].nome # nome_etapa
         IN <<steps[i]>>
    ELSE <<>>

(* AutoSaveManager.recuperar_etapa with a step name: the unified file when  *)
(* it exists (a file that does not parse raises inside the try block and    *)
(* {} is returned), else the in-memory session, else {}.  The result is <<>>*)
(* for {} and <<etapa>> for a step record. *)
first_named(steps, nome_etapa) ==
    IF \E i \in DOMAIN steps : steps[i].nome = nome_etapa
    THEN LET i == CHOOSE j \in DOMAIN steps :
                     /\ steps[j].nome = nome_etapa
                     /\ \A k \in 1..(j - 1) : steps[k].nome # nome_etapa
         IN <<steps[i]>>
    ELSE <<>>

recuperar_etapa(uf, sd, session_id, nome_etapa) ==
    IF session_id \in DOMAIN uf
    THEN IF uf[session_id].parseable
         THEN first_named(uf[session_id].doc[1].extraction_steps, nome_etapa)
         ELSE <<>>
    ELSE IF session_id \in DOMAIN sd
         THEN first_named(sd[session_id].extraction_steps, nome_etapa)
         ELSE <<>>

StepNames == {i.nome : i \in StepInputs}

RecuperarEtapa ==
    /\ ops < MaxOps
    /\ ops' = ops + 1
    /\ \E sid \in Sessions, n \in StepNames :
          lastOp' = Call("recuperar_etapa", sid, n, <<>>, "", <<>>,
                         recuperar_etapa(unified_file, session_data, sid, n),
                         FALSE)
    /\ UNCHANGED <<session_data, unified_file, mirror_files, error_files, now,
                   generated, disk, history>>
    /\ UNCHANGED <<wfVars, svcVars>>

(* The process ends and a new one starts: the module-level singleton        *)
(* auto_save_manager = AutoSaveManager() is constructed again with an empty *)
(* session_data; the files stay.  Time has passed. *)
Restart ==
    /\ ops < MaxOps
    /\ ops' = ops + 1
    /\ now' = now + 1
    /\ session_data' = <<>>
    /\ lastOp' = Call("restart", None, "", <<>>, "", <<>>, <<>>, FALSE)
    /\ UNCHANGED <<unified_file, mirror_files, error_files, generated, disk,
                   history>>
    /\ UNCHANGED <<wfVars, svcVars>>

(* Time passes between two calls. *)
Tick ==
    /\ ops < MaxOps
    /\ ops' = ops + 1
    /\ now' = now + 1
    /\ UNCHANGED <<session_data, unified_file, mirror_files, error_files,
                   generated, lastOp, disk, history>>
    /\ UNCHANGED <<wfVars, svcVars>>

(* The condition of a directory changes (disk full, permissions, repair). *)
DiskChange ==
    /\ ops < MaxOps
    /\ ops' = ops + 1
    /\ \E d \in StoreDirs, o \in IOOutcomes :
          /\ disk[d] # o
          /\ disk' = [disk EXCEPT ![d] = o]
    /\ UNCHANGED <<session_data, unified_file, mirror_files, error_files, now,
                   generated, lastOp, history>>
    /\ UNCHANGED <<wfVars, svcVars>>

(* No call of the report assembly, the search engine or the image         *)
(* extractor has been made. *)
Idle == [pc |-> "idle"]
LateIdle ==
    /\ finder = Idle
    /\ orch = Idle
    /\ insta = Idle
    /\ threads = <<>>
SvcIdle ==
    /\ report = Idle
    /\ engine = Idle
    /\ social = Idle
    /\ LateIdle

StoreInit ==
    /\ session_data = <<>>
    /\ unified_file = <<>>
    /\ mirror_files = <<>>
    /\ error_files = <<>>
    /\ now = 0
    /\ generated = 0
    /\ lastOp = [ n |-> 0, op |-> "init", session_id |-> None, nome |-> "",
                  dados |-> <<>>, categoria |-> "", ret |-> <<>>, rec |-> <<>>,
                  existed |-> FALSE ]
    /\ disk = [d \in Dirs |-> "ok"]
    /\ ops = 0
    /\ history = <<>>

WfIdle ==
    /\ tasks = <<>>
    /\ markers = <<>>
    /\ lastResp = [ route |-> "none", req |-> None, code |-> 0,
                    session_id |-> None, body |-> <<>>, n |-> 0 ]
    /\ requests = 0
    /\ services_ok = TRUE

-----------------------------------------------------------------------------
(* routes/enhanced_workflow.py *)

(* The calls a background task makes, in order, between get_services() and *)
(* the step record that ends it. *)
Program(kind) ==
    CASE kind = "step1" ->
            <<"get_services", "execute_massive_real_search",
              "execute_massive_search", "analyze_and_capture_viral_content",
              "generate_viral_report", "generate_collection_report",
              "save_collection_report">>
      [] kind = "step2" ->
            <<"get_services", "execute_enhanced_synthesis",
              "execute_behavioral_synthesis", "execute_market_synthesis">>
      [] kind = "step3" ->
            <<"get_services", "generate_all_modules",
              "compile_final_markdown_report">>
      [] kind = "complete" ->
            <<"get_services", "execute_massive_real_search",
              "analyze_and_capture_viral_content", "generate_viral_report",
              "generate_collection_report", "save_collection_report",
              "execute_enhanced_synthesis", "generate_all_modules",
              "compile_final_markdown_report">>

ConcludedStep(kind) ==
    CASE kind = "step1" -> "etapa1_concluida"
      [] kind = "step2" -> "etapa2_concluida"
      [] kind = "step3" -> "etapa3_concluida"
      [] kind = "complete" -> "workflow_completo"
ErrorStep(kind) ==
    CASE kind = "step1" -> "etapa1_erro"
      [] kind = "step2" -> "etapa2_erro"
      [] kind = "step3" -> "etapa3_erro"
      [] kind = "complete" -> "workflow_erro"

(* The files of analyses_data/<session_id>/ that the status route probes. *)
marker_path(session_id, file) == <<"analyses_data", session_id, file>>
Exists(files, path) == path \in DOMAIN files

(* _save_collection_report: writes relatorio_coleta.md; a failure is logged *)
(* and not raised. *)
save_collection_report(mk, session_id, outcome) ==
    WriteFile(mk, marker_path(session_id, "relatorio_coleta.md"),
              [report |-> session_id], outcome)

(* The files the collaborators that are not part of this repository leave  *)
(* behind when they return: the synthesis engine the step 2 marker, the    *)
(* report compiler the final report. *)
collaborator_files(mk, call, session_id, outcome) ==
    CASE call = "execute_enhanced_synthesis" /\ outcome = "returns" ->
            WriteFile(mk, marker_path(session_id, "resumo_sintese.json"),
                      [report |-> session_id], "ok")
      [] call = "compile_final_markdown_report" /\ outcome = "returns" ->
            WriteFile(mk, marker_path(session_id, "relatorio_final.md"),
                      [report |-> session_id], "ok")
      [] OTHER -> mk

(* What a call of a task may do. *)
Outcomes(call) ==
    CASE call = "get_services" ->
            IF services_ok THEN {"returns", "raises"} ELSE {"none"}
      [] call = "save_collection_report" -> {"returns"}
      [] call \in {"execute_enhanced_synthesis", "compile_final_markdown_report"} ->
            {"returns", "returns_nothing_written", "raises"}
      [] OTHER -> {"returns", "raises"}

NewTask(kind, session_id) ==
    [ kind |-> kind, session_id |-> session_id, pc |-> 1, state |-> "running",
      log |-> <<>>, raised |-> FALSE, recorded |-> <<>> ]

(* A task body that catches the exception at the call and goes on. *)
after_call_goes_on(task, call, outcome) ==
    CASE outcome = "raises" ->
            [task EXCEPT !.log = Append(@, call), !.raised = TRUE,
                         !.pc = @ + 1,
                         !.recorded = Append(@, ErrorStep(task.kind))]
      [] outcome = "none" ->
            [task EXCEPT !.log = Append(@, call), !.state = "done"]
      [] OTHER ->
            [task EXCEPT !.log = Append(@, call), !.pc = @ + 1]

(* The place a task is at after a call with the given outcome: a call that *)
(* raises is caught by the except clause of the task body, which records   *)
(* the error step; get_services() returning None ends the task at "return".*)
after_call(task, call, outcome) ==
    CASE outcome = "raises" ->
            [task EXCEPT !.log = Append(@, call), !.raised = TRUE,
                         !.state = "done",
                         !.recorded = Append(@, ErrorStep(task.kind))]
      [] outcome = "none" ->
            [task EXCEPT !.log = Append(@, call), !.state = "done"]
      [] OTHER ->
            [task EXCEPT !.log = Append(@, call), !.pc = @ + 1]

(* One call of a background task.  A call that raises ends the try block:  *)
(* the except clause records the <etapaN>_erro step. *)
TaskCall ==
    \E i \in DOMAIN tasks :
        LET task == tasks[i]
            call == Program(task.kind)[task.pc]
        IN /\ task.state = "running"
           /\ task.pc <= Len(Program(task.kind))
           /\ \E outcome \in Outcomes(call) :
                 /\ tasks' = [tasks EXCEPT ![i] = after_call(task, call, outcome)]
                 /\ markers' =
                       IF call = "save_collection_report"
                       THEN save_collection_report(markers, task.session_id,
                                                   disk["session_dir"])
                       ELSE collaborator_files(markers, call, task.session_id,
                                               outcome)
                 /\ IF outcome = "raises"
                    THEN salvar_etapa(None, ErrorStep(task.kind),
                                      [session_id |-> task.session_id],
                                      "workflow", generated)
                    ELSE UNCHANGED <<session_data, unified_file, mirror_files,
                                     error_files, now, generated, lastOp, disk,
                                     history>>
           /\ UNCHANGED <<ops, lastResp, requests, services_ok, svcVars>>

(* The step record after the last call: <etapaN>_concluida. *)
TaskFinish ==
    \E i \in DOMAIN tasks :
        LET task == tasks[i]
        IN /\ task.state = "running"
           /\ task.pc = Len(Program(task.kind)) + 1
           /\ tasks' = [tasks EXCEPT ![i].state = "done",
                                     ![i].recorded =
                                         Append(@, ConcludedStep(task.kind))]
           /\ salvar_etapa(None, ConcludedStep(task.kind),
                           [session_id |-> task.session_id], "workflow", generated)
           /\ UNCHANGED <<ops, markers, lastResp, requests, services_ok, svcVars>>

(* req is the required field as the request carried it. *)
Response(route, req, code, session_id, body) ==
    [ route |-> route, req |-> req, code |-> code, session_id |-> session_id,
      body |-> body, n |-> requests + 1 ]

(* The session ids a client can send: the ones the routes returned, and    *)
(* one that no route returned. *)
ClientIds == {"s1"} \cup {tasks[i].session_id : i \in DOMAIN tasks}
Segmentos == {"", "seg"}

(* POST /workflow/step1/start *)
start_step1_collection(segmento) ==
    LET session_id == generate_session_id(generated)
    IN IF segmento = ""
       THEN /\ lastResp' = Response("step1", segmento, 400, None, <<>>)
            /\ generated' = generated + 1
            /\ UNCHANGED <<session_data, unified_file, mirror_files, error_files,
                           now, lastOp, disk, history, tasks>>
       ELSE /\ salvar_etapa(None, "etapa1_iniciada", [session_id |-> session_id],
                            "workflow", generated + 1)
            /\ tasks' = Append(tasks, NewTask("step1", session_id))
            /\ lastResp' = Response("step1", segmento, 200, session_id, <<>>)

StartStep1 ==
    /\ requests < MaxRequests
    /\ Len(tasks) < MaxTasks
    /\ requests' = requests + 1
    /\ \E segmento \in Segmentos : start_step1_collection(segmento)
    /\ UNCHANGED <<ops, markers, services_ok, svcVars>>

(* POST /workflow/step2/start and POST /workflow/step3/start *)
start_step_n(kind, route, iniciada, session_id) ==
    IF session_id = None
    THEN /\ lastResp' = Response(route, session_id, 400, None, <<>>)
         /\ UNCHANGED <<session_data, unified_file, mirror_files, error_files,
                        now, generated, lastOp, disk, history, tasks>>
    ELSE /\ salvar_etapa(None, iniciada, [session_id |-> session_id],
                         "workflow", generated)
         /\ tasks' = Append(tasks, NewTask(kind, session_id))
         /\ lastResp' = Response(route, session_id, 200, session_id, <<>>)

StartStep2 ==
    /\ requests < MaxRequests
    /\ Len(tasks) < MaxTasks
    /\ requests' = requests + 1
    /\ \E session_id \in ClientIds \cup {None} :
          start_step_n("step2", "step2", "etapa2_iniciada", session_id)
    /\ UNCHANGED <<ops, markers, services_ok, svcVars>>

StartStep3 ==
    /\ requests < MaxRequests
    /\ Len(tasks) < MaxTasks
    /\ requests' = requests + 1
    /\ \E session_id \in ClientIds \cup {None} :
          start_step_n("step3", "step3", "etapa3_iniciada", session_id)
    /\ UNCHANGED <<ops, markers, services_ok, svcVars>>

(* POST /workflow/complete: the body is read inside the background task;   *)
(* the route itself checks nothing and records no step. *)
execute_complete_workflow(segmento) ==
    LET session_id == generate_session_id(generated)
    IN /\ tasks' = Append(tasks, NewTask("complete", session_id))
       /\ lastResp' = Response("complete", segmento, 200, session_id, <<>>)
       /\ generated' = generated + 1
       /\ UNCHANGED <<session_data, unified_file, mirror_files, error_files,
                      now, lastOp, disk, history>>

StartComplete ==
    /\ requests < MaxRequests
    /\ Len(tasks) < MaxTasks
    /\ requests' = requests + 1
    /\ \E segmento \in Segmentos : execute_complete_workflow(segmento)
    /\ UNCHANGED <<ops, markers, services_ok, svcVars>>

(* glob.glob(f"relatorios_intermediarios/workflow/etapaN_erro*{session_id}*"):*)
(* the files of that directory, relative to the working directory, whose   *)
(* name starts with the step name and holds the session id after it.       *)
glob_error_files(files, session_id) ==
    { p \in DOMAIN files :
        /\ p.dir = <<"relatorios_intermediarios", "workflow">>
        /\ p.name[1] \in {"etapa1_erro", "etapa2_erro", "etapa3_erro"}
        /\ \E i \in 2..Len(p.name) : p.name[i] = session_id }

(* A status that takes the highest marker present as proof of the steps   *)
(* below it. *)
get_workflow_status_monotone(mk, files, session_id) ==
    LET m1 == Exists(mk, marker_path(session_id, "relatorio_coleta.md"))
        m2 == Exists(mk, marker_path(session_id, "resumo_sintese.json"))
        m3 == Exists(mk, marker_path(session_id, "relatorio_final.md"))
        done(b) == IF b THEN "completed" ELSE "pending"
    IN [ session_id |-> session_id,
         current_step |-> IF m3 THEN 3 ELSE IF m2 THEN 2 ELSE IF m1 THEN 1 ELSE 0,
         step_status |-> [step1 |-> done(m1 \/ m2 \/ m3),
                          step2 |-> done(m2 \/ m3), step3 |-> done(m3)],
         progress_percentage |->
             IF m3 THEN 100 ELSE IF m2 THEN 66 ELSE IF m1 THEN 33 ELSE 0,
         estimated_remaining |-> IF m3 THEN "Concluído" ELSE "Calculando..." ]

(* GET /workflow/status/<session_id>: the body of the 200 response. *)
get_workflow_status(mk, files, session_id) ==
    LET st0 == [ session_id |-> session_id, current_step |-> 0,
                 step_status |-> [step1 |-> "pending", step2 |-> "pending",
                                  step3 |-> "pending"],
                 progress_percentage |-> 0,
                 estimated_remaining |-> "Calculando..." ]
        st1 == IF Exists(mk, marker_path(session_id, "relatorio_coleta.md"))
               THEN [st0 EXCEPT !.step_status.step1 = "completed",
                                !.current_step = 1,
                                !.progress_percentage = 33]
               ELSE st0
        st2 == IF Exists(mk, marker_path(session_id, "resumo_sintese.json"))
               THEN [st1 EXCEPT !.step_status.step2 = "completed",
                                !.current_step = 2,
                                !.progress_percentage = 66]
               ELSE st1
        st3 == IF Exists(mk, marker_path(session_id, "relatorio_final.md"))
               THEN [st2 EXCEPT !.step_status.step3 = "completed",
                                !.current_step = 3,
                                !.progress_percentage = 100,
                                !.estimated_remaining = "Concluído"]
               ELSE st2
    IN IF glob_error_files(files, session_id) # {}
       THEN DictSet(st3, "error", "Erro detectado em uma das etapas")
       ELSE st3

GetStatus ==
    /\ requests < MaxRequests
    /\ requests' = requests + 1
    /\ \E session_id \in ClientIds :
          lastResp' = Response("status", session_id, 200, session_id,
                               <<get_workflow_status(markers, mirror_files,
                                                     session_id)>>)
    /\ UNCHANGED <<storeVars, tasks, markers, services_ok, svcVars>>

(* A download route that falls back to the other report for both file     *)
(* types. *)
download_workflow_file_any(files, session_id, file_type) ==
    LET final == marker_path(session_id, "relatorio_final.md")
        completo == marker_path(session_id, "relatorio_final_completo.md")
        first == IF file_type = "final_report" THEN final ELSE completo
        other == IF file_type = "final_report" THEN completo ELSE final
        file_path == IF ~Exists(files, first) THEN other ELSE first
    IN IF file_type \notin {"final_report", "complete_report"}
       THEN [code |-> 400, sent |-> <<>>]
       ELSE IF ~Exists(files, file_path)
            THEN [code |-> 404, sent |-> <<>>]
            ELSE [code |-> 200,
                  sent |-> <<[file_path |-> file_path,
                              download_name |-> <<"relatorio", session_id>>]>>]

(* GET /workflow/download/<session_id>/<file_type>: the status code and,  *)
(* for 200, the file handed to send_file and the name it is sent under.    *)
download_workflow_file(files, session_id, file_type) ==
    LET final == marker_path(session_id, "relatorio_final.md")
        completo == marker_path(session_id, "relatorio_final_completo.md")
        file_path == IF file_type = "final_report"
                     THEN IF ~Exists(files, final) THEN completo ELSE final
                     ELSE completo
        filename == IF file_type = "final_report"
                    THEN <<"relatorio_final", session_id>>
                    ELSE <<"relatorio_completo", session_id>>
    IN IF file_type \notin {"final_report", "complete_report"}
       THEN [code |-> 400, sent |-> <<>>]
       ELSE IF ~Exists(files, file_path)
            THEN [code |-> 404, sent |-> <<>>]
            ELSE [code |-> 200,
                  sent |-> <<[file_path |-> file_path, download_name |-> filename]>>]

FileTypes == {"final_report", "complete_report", "collection_report", ""}

Download ==
    /\ requests < MaxRequests
    /\ requests' = requests + 1
    /\ \E session_id \in Sessions, file_type \in FileTypes :
          LET r == download_workflow_file(markers, session_id, file_type)
          IN lastResp' = Response("download", file_type, r.code, session_id, r.sent)
    /\ UNCHANGED <<storeVars, tasks, markers, services_ok, svcVars>>

(* The download route on every state of the report files of two sessions. *)
ReportFiles == {marker_path(s, f) : s \in Sessions,
                    f \in {"relatorio_final.md", "relatorio_final_completo.md"}}
DlInit ==
    /\ StoreInit
    /\ tasks = <<>>
    /\ markers \in {[p \in S |-> Parsed([report |-> p[2]])] : S \in SUBSET ReportFiles}
    /\ lastResp = [ route |-> "none", req |-> None, code |-> 0,
                    session_id |-> None, body |-> <<>>, n |-> 0 ]
    /\ requests = 0
    /\ services_ok = TRUE
    /\ SvcIdle
DlNext == Download
DlSpec == DlInit /\ [][DlNext]_vars

(* The workflow routes and their background tasks, on any condition of the *)
(* session directory and with or without importable collaborators. *)
WfInit ==
    /\ session_data = <<>>
    /\ unified_file = <<>>
    /\ mirror_files = <<>>
    /\ error_files = <<>>
    /\ now = 0
    /\ generated = 0
    /\ lastOp = [ n |-> 0, op |-> "init", session_id |-> None, nome |-> "",
                  dados |-> <<>>, categoria |-> "", ret |-> <<>>, rec |-> <<>>,
                  existed |-> FALSE ]
    /\ disk \in {[d \in Dirs |-> IF d = "session_dir" THEN o ELSE "ok"] :
                    o \in IOOutcomes}
    /\ ops = 0
    /\ history = <<>>
    /\ tasks = <<>>
    /\ markers = <<>>
    /\ lastResp = [ route |-> "none", req |-> None, code |-> 0,
                    session_id |-> None, body |-> <<>>, n |-> 0 ]
    /\ requests = 0
    /\ services_ok \in BOOLEAN
    /\ SvcIdle
WfNext ==
    \/ StartStep1
    \/ StartStep2
    \/ StartStep3
    \/ StartComplete
    \/ GetStatus
    \/ TaskCall
    \/ TaskFinish
WfSpec == WfInit /\ [][WfNext]_vars

-----------------------------------------------------------------------------
(* routes/enhanced_workflow.py: _generate_collection_report.  JSON values   *)
(* are tagged with their Python type; a dictionary is a function from its   *)
(* keys, and a missing field is a key outside its domain.                   *)
Num(n) == [type |-> "num", n |-> n]
Str(s) == [type |-> "str", s |-> s]
NoneV == [type |-> "none"]
EmptyDict == <<>>

(* dict.get(key, default) *)
get(d, key, default) == IF key \in DOMAIN d THEN d[key] ELSE default

(* The outcome of evaluating a piece of the report: the text it adds, or   *)
(* an exception that leaves the function.                                   *)
Ok(text) == [raised |-> FALSE, text |-> text]
Raise == [raised |-> TRUE, text |-> <<>>]
Cat(a, b) ==
    IF a.raised \/ b.raised THEN Raise ELSE Ok(a.text \o b.text)

(* int(value) of the strings the inputs are drawn from: the numerals have  *)
(* a value, every other string raises ValueError.                           *)
Numerals == [s \in {"2048"} |-> 2048]

(* f"{n:,}" and the fixed-point formats of a number *)
Thousands(n) ==
    LET r == n % 1000
        pad == IF r < 10 THEN "00" ELSE IF r < 100 THEN "0" ELSE ""
    IN IF n < 1000 THEN ToString(n)
       ELSE ToString(n \div 1000) \o "," \o pad \o ToString(r)
Fixed(tenths) == ToString(tenths \div 10) \o "." \o ToString(tenths % 10)

(* f"{value}": str(value) of any value *)
format_str(v) ==
    CASE v.type = "num" -> ToString(v.n)
      [] v.type = "str" -> v.s
      [] OTHER -> "None"

(* f"{value:.2f}" and f"{value:.1f}": only a number has the format code f; *)
(* a string raises ValueError and None raises TypeError.                    *)
format_f(v) == IF v.type = "num" THEN Ok(<<Fixed(v.n * 10)>>) ELSE Raise

(* f"{value/1024:.1f}": the division raises TypeError unless value is a    *)
(* number.                                                                  *)
format_kb(v) ==
    IF v.type = "num" THEN Ok(<<Fixed((v.n * 10) \div 1024)>>) ELSE Raise

(* safe_format_int: the one guarded conversion of the function *)
safe_format_int(v) ==
    CASE v.type = "num" -> Thousands(v.n)
      [] v.type = "str" -> IF v.s \in DOMAIN Numerals
                           THEN Thousands(Numerals[v.s]) ELSE v.s
      [] OTHER -> "N/A"

(* value.title() of the platform field: a method of str only *)
title(v) == IF v.type = "str" THEN Ok(<<v.s>>) ELSE Raise

(* _load_all_saved_excerpts: every JSON file of the session's excerpt      *)
(* directory that parses; a file that does not parse is logged and skipped. *)
load_all_saved_excerpts(files) ==
    LET parsed == SelectSeq(files, LAMBDA f : f.parseable)
    IN [i \in 1..Len(parsed) |-> parsed[i].doc[1]]

(* The header: query, duration and the statistics of the collection. *)
report_header(search_results, all_saved_excerpts) ==
    LET statistics == get(search_results, "statistics", EmptyDict)
        extracted == get(statistics, "content_extracted", Num(0))
    IN Cat(Ok(<<"# RELATORIO CONSOLIDADO",
                format_str(get(search_results, "query", Str("N/A")))>>),
       Cat(format_f(get(statistics, "search_duration", Num(0))),
       Cat(Ok(<<safe_format_int(extracted)>>),
       Cat(format_kb(extracted),
           Ok(<<ToString(Len(all_saved_excerpts))>>)))))

(* Section 1: one block for every saved excerpt. *)
RECURSIVE report_excerpts(_)
report_excerpts(excerpts) ==
    IF excerpts = <<>> THEN Ok(<<>>)
    ELSE Cat(Ok(<<format_str(get(excerpts[1], "titulo", Str("Sem titulo")))>>),
         Cat(format_f(get(excerpts[1], "qualidade", Num(0))),
             report_excerpts(Tail(excerpts))))

(* Section 2: one block for every web result; content_length > 0 is a      *)
(* comparison with a number.                                                *)
RECURSIVE report_web_results(_)
report_web_results(web_results) ==
    IF web_results = <<>> THEN Ok(<<>>)
    ELSE LET result == web_results[1]
             content_length == get(result, "content_length", Num(0))
         IN Cat(Ok(<<format_str(get(result, "title", Str("Sem titulo")))>>),
            Cat(format_f(get(result, "relevance_score", Num(0))),
            Cat(IF content_length.type # "num" THEN Raise
                ELSE IF content_length.n > 0
                     THEN Cat(Ok(<<Thousands(content_length.n)>>),
                              format_kb(content_length))
                     ELSE Ok(<<>>),
                report_web_results(Tail(web_results)))))

(* Sections 6 and 7: one block for every social result and every           *)
(* screenshot, with the platform in title case and the viral score.         *)
RECURSIVE report_platform_items(_)
report_platform_items(items) ==
    IF items = <<>> THEN Ok(<<>>)
    ELSE Cat(title(get(items[1], "platform", Str("N/A"))),
         Cat(format_f(get(items[1], "viral_score", Num(0))),
             report_platform_items(Tail(items))))

(* Section 8: every context entry with a truthy value. *)
Truthy(v) ==
    CASE v.type = "num" -> v.n # 0
      [] v.type = "str" -> v.s # ""
      [] OTHER -> FALSE
ContextKeys == <<"segmento", "produto">>
RECURSIVE report_context(_, _)
report_context(context, keys) ==
    IF keys = <<>> THEN <<>>
    ELSE (IF keys[1] \in DOMAIN context /\ Truthy(context[keys[1]])
          THEN <<keys[1], format_str(context[keys[1]])>> ELSE <<>>)
         \o report_context(context, Tail(keys))

(* _generate_collection_report: the sections in their order; nothing in it *)
(* catches what a section raises.                                           *)
generate_collection_report(search_results, viral_analysis, context, files) ==
    LET all_saved_excerpts == load_all_saved_excerpts(files)
        web_results == get(search_results, "web_results", <<>>)
        social_results == get(search_results, "social_results", <<>>)
        screenshots == get(viral_analysis, "screenshots_captured", <<>>)
    IN Cat(report_header(search_results, all_saved_excerpts),
       Cat(Ok(IF all_saved_excerpts = <<>>
              THEN <<"Nenhum trecho extraido encontrado">> ELSE <<>>),
       Cat(report_excerpts(all_saved_excerpts),
       Cat(Ok(<<"## RESULTADOS DE BUSCA WEB COMPLETOS">>),
       Cat(report_web_results(web_results),
       Cat(report_platform_items(social_results),
       Cat(report_platform_items(screenshots),
       Cat(Ok(<<"## CONTEXTO COMPLETO DA ANALISE">>),
       Cat(Ok(report_context(context, ContextKeys)),
           Ok(<<"## ESTATISTICAS FINAIS CONSOLIDADAS",
                ToString(Len(all_saved_excerpts)),
                ToString(Len(screenshots)),
                ToString(Len(web_results)),
                ToString(Len(social_results))>>))))))))))

(* The inputs of a call: each field is missing or holds a number, a string *)
(* or None.                                                                 *)
FieldValues == {Num(2048), Str("2048"), NoneV}
Dicts(keys, values) ==
    UNION {[S -> values] : S \in SUBSET keys}
OneOrNone(items) == {<<>>} \cup {<<i>> : i \in items}
SearchResultsInputs ==
    {[k \in (IF st = <<>> THEN {} ELSE {"statistics"})
            \cup (IF w = <<>> THEN {} ELSE {"web_results"})
            \cup (IF so = <<>> THEN {} ELSE {"social_results"}) |->
        CASE k = "statistics" -> st[1]
          [] k = "web_results" -> w
          [] OTHER -> so] :
      st \in OneOrNone(Dicts({"search_duration", "content_extracted"},
                             FieldValues)),
      w \in OneOrNone(Dicts({"relevance_score"}, FieldValues)),
      so \in OneOrNone(Dicts({"platform"}, {Str("instagram"), NoneV}))}
ViralAnalysisInputs ==
    {EmptyDict, [screenshots_captured |-> <<[platform |-> Str("youtube"),
                                             viral_score |-> Num(7)]>>]}
ContextInputs == Dicts({"segmento"}, {Str("mercado"), NoneV})
ExcerptFiles ==
    OneOrNone({Unparseable}
              \cup {Parsed(e) : e \in Dicts({"qualidade"}, {Num(80), Str("alta")})})

(* One call of the report assembly on drawn inputs. *)
GenerateReport ==
    /\ report.pc = "ready"
    /\ report' = [ pc |-> "done",
                   search_results |-> report.search_results,
                   viral_analysis |-> report.viral_analysis,
                   context |-> report.context,
                   files |-> report.files,
                   result |-> generate_collection_report(
                                  report.search_results, report.viral_analysis,
                                  report.context, report.files) ]
    /\ UNCHANGED <<storeVars, wfVars, engine, social, lateVars>>

RptInit ==
    /\ StoreInit
    /\ WfIdle
    /\ report \in [ pc : {"ready"},
                    search_results : SearchResultsInputs,
                    viral_analysis : ViralAnalysisInputs,
                    context : ContextInputs,
                    files : ExcerptFiles ]
    /\ engine = Idle
    /\ social = Idle
    /\ LateIdle
RptNext == GenerateReport
RptSpec == RptInit /\ [][RptNext]_vars

-----------------------------------------------------------------------------
(* services/massive_search_engine.py: MassiveSearchEngine.  A product name  *)
(* is a sequence of characters; sizes are in KB.                            *)
min_size_kb == 500
Produtos == {<<"k", "i", "t">>, <<"k", " ", "t">>, <<"k", "/", "t">>}

(* produto.replace(c, '_') for every character c of replaced, and the name *)
(* f"RES_BUSCA_{produto_clean.upper()}.json".  The engine replaces the     *)
(* space and the slash, the store the backslash as well.                    *)
produto_clean(produto, replaced) ==
    [i \in DOMAIN produto |-> IF produto[i] \in replaced THEN "_" ELSE produto[i]]
res_busca_name(clean) ==
    LET upper(c) == CASE c = "k" -> "K" [] c = "i" -> "I" [] c = "t" -> "T"
                      [] OTHER -> c
    IN <<"RES_BUSCA">> \o [i \in DOMAIN clean |-> upper(clean[i])]

(* resultado_file of the engine, under data_dir, and the file of the        *)
(* store's save_massive_search_result, under base_dir/completas.            *)
resultado_file(produto) ==
    [ dir |-> <<"analyses_data">>,
      name |-> res_busca_name(produto_clean(produto, {" ", "/"})) ]
completas_file(produto) ==
    [ dir |-> <<"analyses_data", "completas">>,
      name |-> res_busca_name(produto_clean(produto, {" ", "/", "\\"})) ]

(* _generate_search_queries: twenty base queries and five audience ones.   *)
(* _generate_expanded_queries and _search_real_orchestrator have no caller. *)
generate_search_queries ==
    [i \in 1..20 |-> <<"base", i>>] \o [i \in 1..5 |-> <<"publico", i>>]
max_searches ==
    IF Len(generate_search_queries) < 10 THEN Len(generate_search_queries) ELSE 10

(* What the WebSailor backend does with a query: it raises, or it returns  *)
(* navigation data of some serialized size.                                 *)
NavigationSizesKB == {300}
BackendOutcomes ==
    {[raises |-> TRUE, kb |-> 0]} \cup
    {[raises |-> FALSE, kb |-> k] : k \in NavigationSizesKB}

(* _search_alibaba_websailor: a result for the query, or None (<<>>) when  *)
(* the backend raised.                                                      *)
search_alibaba_websailor(query, backend) ==
    IF backend.raises THEN <<>>
    ELSE <<[query |-> query, api |-> "alibaba_websailor", kb |-> backend.kb]>>

(* len(json.dumps(massive_data)) in KB: the empty structure and what each  *)
(* collected result adds.                                                    *)
RECURSIVE SumKb(_)
SumKb(results) ==
    IF results = <<>> THEN 0 ELSE results[1].kb + SumKb(Tail(results))
serialized_kb(massive_data) == 1 + SumKb(massive_data.alibaba_websailor_results)

(* The structure the run starts from. *)
new_massive_data(produto) ==
    [ produto |-> produto,
      alibaba_websailor_results |-> <<>>,
      real_search_orchestrator_results |-> <<>>,
      apis_used |-> {},
      total_searches |-> 0,
      size_kb |-> 0,
      target_size_kb |-> min_size_kb,
      dados_consolidados_texto |-> <<>> ]

(* A search whose adapter lets the failure of its backend out, with no     *)
(* handler in the loop either: the exception ends the run in the outer     *)
(* handler of execute_massive_search.                                       *)
search_query_unguarded(e, backend) ==
    IF backend.raises
    THEN [e EXCEPT !.pc = "done", !.search_count = @ + 1,
                   !.calls = Append(@, <<generate_search_queries[e.search_count + 1],
                                         "alibaba_websailor">>),
                   !.last = <<>>, !.ret = [kind |-> "error"]]
    ELSE LET query == generate_search_queries[e.search_count + 1]
             r == search_alibaba_websailor(query, backend)
             md == [e.massive_data EXCEPT
                      !.alibaba_websailor_results = @ \o r,
                      !.apis_used = @ \cup {"alibaba_websailor",
                                  "real_search_orchestrator_already_executed"}]
         IN [e EXCEPT !.search_count = @ + 1, !.last = r, !.massive_data = md,
                      !.calls = Append(@, <<query, "alibaba_websailor">>),
                      !.current_size = serialized_kb(md)]

(* calls is the sequence of the backend calls made, as <<query, backend>>.  *)
(* One iteration of the loop over search_queries[:max_searches]: the        *)
(* adapter's result, when there is one, joins the results; the orchestrator *)
(* is only recorded as already executed; the size is measured.              *)
search_query(e, backend) ==
    LET query == generate_search_queries[e.search_count + 1]
        r == search_alibaba_websailor(query, backend)
        md == [e.massive_data EXCEPT
                 !.alibaba_websailor_results = @ \o r,
                 !.apis_used = @ \cup
                     (IF r # <<>> THEN {"alibaba_websailor"} ELSE {})
                     \cup {"real_search_orchestrator_already_executed"}]
    IN [e EXCEPT !.search_count = @ + 1, !.last = r, !.massive_data = md,
                 !.calls = Append(@, <<query, "alibaba_websailor">>),
                 !.current_size = serialized_kb(md)]

(* _consolidate_all_saved_data: the texts of the collected results are     *)
(* added to the bundle; nothing it does raises out of it.                   *)
consolidate_all_saved_data(md) ==
    [md EXCEPT !.dados_consolidados_texto =
        [i \in DOMAIN md.alibaba_websailor_results |->
            md.alibaba_websailor_results[i].query]]

(* AutoSaveManager.save_massive_search_result: the bundle written under    *)
(* completas; a failed write is reported with success False.                *)
save_massive_search_result(files, massive_data, produto, outcome) ==
    [ success |-> outcome = "ok",
      files |-> WriteFile(files, completas_file(produto), massive_data, outcome),
      data |-> massive_data ]

(* execute_massive_search up to its loop. *)
ExecuteMassiveSearch ==
    /\ engine.pc = "ready"
    /\ engine' = [ pc |-> "loop", produto |-> engine.produto,
                   files |-> engine.files,
                   massive_data |-> new_massive_data(engine.produto),
                   search_count |-> 0, current_size |-> 0,
                   calls |-> <<>>,
                   last |-> <<>>, ret |-> [kind |-> "none"] ]
    /\ UNCHANGED <<storeVars, wfVars, report, social, lateVars>>

(* One search of the loop. *)
SearchQuery ==
    /\ engine.pc = "loop"
    /\ engine.search_count < max_searches
    /\ \E backend \in BackendOutcomes :
          engine' = search_query(engine, backend)
    /\ UNCHANGED <<storeVars, wfVars, report, social, lateVars>>

(* After the loop: the metadata, the consolidation, the save by the store   *)
(* and the return of the bundle, saved or not.                              *)
FinishSearch ==
    /\ engine.pc = "loop"
    /\ engine.search_count = max_searches
    /\ LET md == consolidate_all_saved_data(
                    [engine.massive_data EXCEPT
                        !.total_searches = engine.search_count,
                        !.size_kb = engine.current_size])
           save_result == save_massive_search_result(
                              engine.files, md, engine.produto,
                              disk["analyses_data"])
       IN /\ engine' = [engine EXCEPT
                           !.pc = "done", !.massive_data = md,
                           !.files = save_result.files,
                           !.ret = [kind |-> "bundle", data |-> save_result.data]]
          /\ IF save_result.success
             THEN UNCHANGED storeVars
             ELSE /\ salvar_erro("save_massive_search_result", "boom", None)
                  /\ UNCHANGED ops
    /\ UNCHANGED <<wfVars, report, social, lateVars>>

(* A run of the engine for a product, on any condition of the directories. *)
EngInit ==
    /\ session_data = <<>>
    /\ unified_file = <<>>
    /\ mirror_files = <<>>
    /\ error_files = <<>>
    /\ now = 0
    /\ generated = 0
    /\ lastOp = [ n |-> 0, op |-> "init", session_id |-> None, nome |-> "",
                  dados |-> <<>>, categoria |-> "", ret |-> <<>>, rec |-> <<>>,
                  existed |-> FALSE ]
    /\ disk \in [Dirs -> IOOutcomes]
    /\ disk["relatorios_intermediarios"] = "ok"
    /\ disk["session_dir"] = "ok"
    /\ ops = 0
    /\ history = <<>>
    /\ WfIdle
    /\ report = Idle
    /\ engine \in [pc : {"ready"}, produto : Produtos, files : {<<>>}]
    /\ social = Idle
    /\ LateIdle
EngNext ==
    \/ ExecuteMassiveSearch
    \/ SearchQuery
    \/ FinishSearch
EngSpec == EngInit /\ [][EngNext]_vars

-----------------------------------------------------------------------------
(* services/social_media_image_extractor.py: SocialMediaImageExtractor.    *)
(* An image is named by the backend that gave it and its rank there.        *)
facebook_limit == 10
instagram_limit == 10
youtube_limit == 10
Platforms == {"facebook", "instagram", "youtube"}
Images(source, n) == [k \in 1..n |-> <<source, k>>]

(* What a backend call gives the sub-task: no API key so no call, None (a  *)
(* response other than 200), or a list of images; a backend that raises    *)
(* inside returns the empty list.                                           *)
BackendResults(source, counts) ==
    {[kind |-> "nokey"], [kind |-> "none"]} \cup
    {[kind |-> "list", images |-> Images(source, n)] : n \in counts}

(* A list that is returned as collected. *)
no_limit(images, limit) == images

(* images[:limit] *)
limit_to(images, limit) ==
    SubSeq(images, 1, IF Len(images) < limit THEN Len(images) ELSE limit)

(* A handler that returns what the sub-task had collected when it failed.  *)
return_collected(body, limit) == limit_to(body.images, limit)

(* The end of a sub-task: its list cut to the limit, or [] when its body   *)
(* raised (except Exception: return []).                                    *)
return_or_empty(body, limit) ==
    IF body.failed THEN <<>> ELSE limit_to(body.images, limit)

(* The body of _extract_facebook_images and of _extract_youtube_images:    *)
(* the first backend when it has a key, then the second while the list is  *)
(* short of the limit; extend(None) raises TypeError.                       *)
extend(body, result) ==
    CASE body.failed -> body
      [] result.kind = "nokey" -> body
      [] result.kind = "none" -> [body EXCEPT !.failed = TRUE]
      [] OTHER -> [body EXCEPT !.images = @ \o result.images]
extract_with_fallback(first, second, limit) ==
    LET b1 == extend([failed |-> FALSE, images |-> <<>>], first)
    IN IF ~b1.failed /\ Len(b1.images) < limit THEN extend(b1, second) ELSE b1

(* The body of _extract_instagram_images: up to three hashtags while the   *)
(* list is short of the limit, then the search for the rest; each call has *)
(* its own handler, so a call that fails is skipped.                        *)
RECURSIVE extract_hashtags(_, _, _)
extract_hashtags(results, images, limit) ==
    IF results = <<>> \/ Len(images) >= limit THEN images
    ELSE extract_hashtags(Tail(results),
             IF results[1].kind = "list" THEN images \o results[1].images
             ELSE images, limit)
extract_instagram(hashtags, search, limit) ==
    LET images == extract_hashtags(hashtags, <<>>, limit)
    IN [ failed |-> FALSE,
         images |-> IF Len(images) < limit /\ search.kind = "list"
                    THEN images \o search.images ELSE images ]

(* The backend results a sub-task may meet. *)
SubTaskBodies(platform) ==
    CASE platform = "facebook" ->
           {extract_with_fallback(a, s, facebook_limit) :
               a \in BackendResults("apify", {0, 6, 12}),
               s \in BackendResults("serper", {0, 12}) \ {[kind |-> "nokey"]}}
      [] platform = "youtube" ->
           {extract_with_fallback(a, s, youtube_limit) :
               a \in BackendResults("youtube_api", {6, 12}),
               s \in BackendResults("apify", {6})}
      [] OTHER ->
           {extract_instagram(<<h1, h2, h3>>, s, instagram_limit) :
               h1 \in BackendResults("tag1", {4}) \ {[kind |-> "nokey"]},
               h2 \in BackendResults("tag2", {7}) \ {[kind |-> "nokey"]},
               h3 \in BackendResults("tag3", {4}) \ {[kind |-> "nokey"]},
               s \in BackendResults("search", {12}) \ {[kind |-> "nokey"]}}
limit_of(platform) ==
    CASE platform = "facebook" -> facebook_limit
      [] platform = "youtube" -> youtube_limit
      [] OTHER -> instagram_limit

(* social_images_<session_id>.json under images_dir *)
results_file(session_id) ==
    [ dir |-> <<"viral_images_data">>, name |-> <<"social_images", session_id>> ]

(* The envelope built from the three gathered lists. *)
extraction_results(session_id, gathered) ==
    [ session_id |-> session_id,
      facebook_images |-> gathered["facebook"],
      instagram_images |-> gathered["instagram"],
      youtube_images |-> gathered["youtube"],
      total_extracted |-> Len(gathered["facebook"]) + Len(gathered["instagram"])
                          + Len(gathered["youtube"]) ]

(* extract_all_social_images up to asyncio.gather: the three sub-tasks are *)
(* created.                                                                  *)
ExtractAllSocialImages ==
    /\ social.pc = "ready"
    /\ social' = [ pc |-> "gather", session_id |-> social.session_id,
                   dir |-> social.dir, files |-> social.files,
                   pending |-> Platforms,
                   failed |-> {},
                   gathered |-> [p \in Platforms |-> <<>>],
                   writes |-> 0 ]
    /\ UNCHANGED <<storeVars, wfVars, report, engine, lateVars>>

(* One sub-task runs to its end, in any order with the others. *)
SubTask ==
    /\ social.pc = "gather"
    /\ \E p \in social.pending : \E body \in SubTaskBodies(p) :
          social' = [social EXCEPT
                        !.pending = @ \ {p},
                        !.failed = IF body.failed THEN @ \cup {p} ELSE @,
                        !.gathered[p] = return_or_empty(body, limit_of(p))]
    /\ UNCHANGED <<storeVars, wfVars, report, engine, lateVars>>

(* gather has returned: the envelope is built, written and returned; a     *)
(* write that fails ends in the handler of the function.                    *)
ReturnEnvelope ==
    /\ social.pc = "gather"
    /\ social.pending = {}
    /\ LET envelope == extraction_results(social.session_id, social.gathered)
       IN social' = [ pc |-> "done", session_id |-> social.session_id,
                      dir |-> social.dir,
                      files |-> WriteFile(social.files,
                                          results_file(social.session_id),
                                          envelope, social.dir),
                      failed |-> social.failed,
                      gathered |-> social.gathered,
                      writes |-> IF social.dir = "unwritten" THEN 0 ELSE 1,
                      ret |-> IF social.dir = "ok" THEN envelope
                              ELSE [success |-> FALSE, total_extracted |-> 0] ]
    /\ UNCHANGED <<storeVars, wfVars, report, engine, lateVars>>

(* A call of the extractor for a session, on any condition of images_dir.  *)
SocInit ==
    /\ StoreInit
    /\ WfIdle
    /\ report = Idle
    /\ engine = Idle
    /\ social \in [ pc : {"ready"}, session_id : Sessions, dir : IOOutcomes,
                    files : {<<>>} ]
    /\ LateIdle
SocNext ==
    \/ ExtractAllSocialImages
    \/ SubTask
    \/ ReturnEnvelope
SocSpec == SocInit /\ [][SocNext]_vars

-----------------------------------------------------------------------------
(* services/viral_integration_service.py: ViralImageFinder.  A title and a *)
(* link are sequences of characters; a score is in units of 1.0.            *)
viral_keywords ==
    << <<"v", "i", "r", "a", "l">>,
       <<"t", "r", "e", "n", "d", "i", "n", "g">>,
       <<"p", "o", "p", "u", "l", "a", "r">>,
       <<"m", "i", "l">>,
       <<"v", "i", "e", "w", "s">>,
       <<"l", "i", "k", "e", "s">>,
       <<"c", "o", "m", "p", "a", "r", "t", "i", "l", "h">>,
       <<"s", "u", "c", "e", "s", "s", "o">> >>
social_platforms ==
    { <<"i", "n", "s", "t", "a", "g", "r", "a", "m", ".", "c", "o", "m">>,
      <<"f", "a", "c", "e", "b", "o", "o", "k", ".", "c", "o", "m">>,
      <<"y", "o", "u", "t", "u", "b", "e", ".", "c", "o", "m">> }

(* str.lower() on the letters the titles are made of *)
lower(s) ==
    [i \in DOMAIN s |->
        CASE s[i] = "A" -> "a" [] s[i] = "C" -> "c" [] s[i] = "F" -> "f" [] s[i] = "I" -> "i" [] s[i] = "L" -> "l" [] s[i] = "R" -> "r" [] s[i] = "V" -> "v"
          [] OTHER -> s[i]]

(* sub in s *)
Contains(s, sub) ==
    \E i \in 0..(Len(s) - Len(sub)) : SubSeq(s, i + 1, i + Len(sub)) = sub

(* A score that is not capped. *)
calculate_viral_score_uncapped(item) ==
    5 + Cardinality({k \in DOMAIN viral_keywords :
                        Contains(lower(item.title), viral_keywords[k])})
      + (IF \E p \in social_platforms : Contains(item.link, p) THEN 2 ELSE 0)

(* _calculate_viral_score: 5.0, 1.0 for every keyword in the lower-cased   *)
(* title, 2.0 for a link that contains a social platform, at most 10.0.     *)
calculate_viral_score(item) ==
    LET lowered == lower(item.title)
        keywords == {k \in DOMAIN viral_keywords : Contains(lowered, viral_keywords[k])}
        on_social == \E p \in social_platforms : Contains(item.link, p)
        score == 5 + Cardinality(keywords) + (IF on_social THEN 2 ELSE 0)
    IN IF score < 10 THEN score ELSE 10

Titles ==
    { <<"C", "u", "r", "s", "o">>,
      <<"V", "I", "R", "A", "L">>,
      <<"F", "a", "m", "i", "l", "i", "a">>,
      <<"v", "i", "r", "a", "l", " ", "l", "i", "k", "e", "s">>,
      <<"m", "i", "l", " ", "v", "i", "e", "w", "s", " ", "l", "i", "k", "e", "s", " ", "s", "u", "c", "e", "s", "s", "o">> }
Links ==
    { <<>>,
      <<"i", "n", "s", "t", "a", "g", "r", "a", "m", ".", "c", "o", "m", "/", "p">>,
      <<"m", ".", "f", "a", "c", "e", "b", "o", "o", "k", ".", "c", "o", "m">>,
      <<"y", "o", "u", "t", "u", ".", "b", "e", "/", "x">>,
      <<"y", "o", "u", "t", "u", "b", "e", ".", "c", "o", "m">>,
      <<"s", "i", "t", "e", ".", "c", "o", "m">> }
Items == [title : Titles, link : Links]

Services == {"serper", "google_cse"}
MaxSerperKeys == 4
MaxImagesSettings == {2, 30}
NoKey == <<>>

(* _get_next_api_key from the attempt-th pass of its loop on: the key at   *)
(* the cursor when its identifier has not failed, the cursor one further   *)
(* in both cases, None after len(keys) passes.                             *)
RECURSIVE next_api_key(_, _, _)
next_api_key(f, service, attempt) ==
    LET n == f.nkeys[service]
        current_index == f.cursor[service]
        advanced == [f EXCEPT !.cursor[service] = (current_index + 1) % n]
    IN IF attempt >= n
       THEN [key |-> NoKey, f |-> f]
       ELSE IF <<service, current_index>> \notin f.failed
            THEN [key |-> <<service, current_index>>, f |-> advanced]
            ELSE next_api_key(advanced, service, attempt + 1)

(* A rotation that hands out the key at the cursor whatever has failed. *)
get_next_api_key_any(f, service) ==
    IF service \notin DOMAIN f.nkeys \/ f.nkeys[service] = 0
    THEN [key |-> NoKey, f |-> f]
    ELSE [key |-> <<service, f.cursor[service]>>,
          f |-> [f EXCEPT !.cursor[service] = (f.cursor[service] + 1) % f.nkeys[service]]]

get_next_api_key(f, service) ==
    IF service \notin DOMAIN f.nkeys \/ f.nkeys[service] = 0
    THEN [key |-> NoKey, f |-> f]
    ELSE next_api_key(f, service, 0)

(* The first four of the six query variants of search_images. *)
queries ==
    <<"instagram", "instagram_p", "instagram_reel", "facebook", "youtube", "curso">>
queried_variants == SubSeq(queries, 1, 4)

(* The results one variant can bring: the adapter's or a fallback's. *)
VariantResults(q) ==
    { <<>>,
      <<[image_url |-> "b", q |-> q], [image_url |-> "a", q |-> q]>>,
      <<[image_url |-> "", q |-> q], [image_url |-> "c", q |-> q], [image_url |-> "c", q |-> q]>> }

(* The results with a non-empty image URL, duplicates kept. *)
RECURSIVE unique_results_all(_, _)
unique_results_all(all_results, seen_image_urls) ==
    IF all_results = <<>> THEN <<>>
    ELSE LET result == Head(all_results)
         IN IF result.image_url # ""
            THEN <<result>> \o unique_results_all(Tail(all_results), seen_image_urls)
            ELSE unique_results_all(Tail(all_results), seen_image_urls)

(* The first result of every non-empty image URL, in the order met. *)
RECURSIVE unique_results(_, _)
unique_results(all_results, seen_image_urls) ==
    IF all_results = <<>> THEN <<>>
    ELSE LET result == Head(all_results)
             image_url == result.image_url
         IN IF image_url # "" /\ image_url \notin seen_image_urls
            THEN <<result>> \o unique_results(Tail(all_results),
                                              seen_image_urls \cup {image_url})
            ELSE unique_results(Tail(all_results), seen_image_urls)

(* unique_results[:max_images] *)
first_n(s, n) == SubSeq(s, 1, IF Len(s) < n THEN Len(s) ELSE n)

(* The key rotation of _search_serper_images: one key per attempt, until   *)
(* no key is left.                                                         *)
RECURSIVE serper_attempts(_, _)
serper_attempts(f, attempts) ==
    IF attempts = 0 THEN f
    ELSE LET r == get_next_api_key(f, "serper")
         IN IF r.key = NoKey THEN r.f ELSE serper_attempts(r.f, attempts - 1)

NoCall == [op |-> "none"]

GetNextApiKey ==
    /\ finder.pc = "ready"
    /\ \E service \in Services \cup {"jina"} :
         LET r == get_next_api_key(finder, service)
         IN finder' = [r.f EXCEPT !.last = [op |-> "get_next_api_key",
                                            service |-> service, key |-> r.key]]
    /\ UNCHANGED <<storeVars, wfVars, report, engine, social, orch, insta, threads>>

CalculateViralScore ==
    /\ finder.pc = "ready"
    /\ \E item \in Items :
         finder' = [finder EXCEPT !.last = [op |-> "calculate_viral_score",
                                            item |-> item,
                                            score |-> calculate_viral_score(item)]]
    /\ UNCHANGED <<storeVars, wfVars, report, engine, social, orch, insta, threads>>

SearchImages ==
    /\ finder.pc = "ready"
    /\ finder' = [finder EXCEPT !.pc = "searching", !.queried = <<>>,
                                !.all_results = <<>>, !.last = NoCall]
    /\ UNCHANGED <<storeVars, wfVars, report, engine, social, orch, insta, threads>>

(* One pass of the loop over queries[:4]: the adapter with its key         *)
(* rotation, then the fallbacks when no key brought results.               *)
SearchVariant ==
    /\ finder.pc = "searching"
    /\ Len(finder.queried) < Len(queried_variants)
    /\ LET q == queried_variants[Len(finder.queried) + 1]
           n == finder.nkeys.serper
       IN \E attempts \in 0..n, results \in VariantResults(q) :
            /\ attempts = n \/ results # <<>>
            /\ attempts > 0 \/ n = 0
            /\ finder' = [serper_attempts(finder, attempts) EXCEPT
                             !.queried = Append(finder.queried, q),
                             !.all_results = finder.all_results \o results]
    /\ UNCHANGED <<storeVars, wfVars, report, engine, social, orch, insta, threads>>

ReturnImages ==
    /\ finder.pc = "searching"
    /\ Len(finder.queried) = Len(queried_variants)
    /\ finder' = [finder EXCEPT
           !.pc = "ready", !.queried = <<>>, !.all_results = <<>>,
           !.last = [op |-> "search_images",
                     collected |-> finder.all_results,
                     images |-> first_n(unique_results(finder.all_results, {}),
                                        finder.max_images)]]
    /\ UNCHANGED <<storeVars, wfVars, report, engine, social, orch, insta, threads>>

(* The fallback chain of _search_serper_images.  A backend answers with a  *)
(* number of usable items or fails; viral_score is in tenths here.         *)
Fallbacks == <<"jina_fallback", "exa_fallback", "web_fallback">>
FallbackAnswers == [fails : BOOLEAN, items : 0..2]

(* _process_jina_results, _process_exa_results, _extract_images_from_html: *)
(* the records of a fallback, with the score of the fallback.              *)
fallback_score(source) ==
    CASE source = "jina_fallback" -> 60
      [] source = "exa_fallback" -> 65
      [] OTHER -> 50
fallback_results(source, answer) ==
    IF answer.fails THEN <<>>
    ELSE first_n([i \in 1..answer.items |->
                     [source |-> source, n |-> i, viral_score |-> fallback_score(source)]],
                 10)

(* A chain that asks every fallback and returns all they brought. *)
RECURSIVE fallback_chain_all(_, _)
fallback_chain_all(answers, k) ==
    IF k > Len(Fallbacks) THEN [invoked |-> <<>>, results |-> <<>>]
    ELSE LET rest == fallback_chain_all(answers, k + 1)
         IN [invoked |-> <<Fallbacks[k]>> \o rest.invoked,
             results |-> fallback_results(Fallbacks[k], answers[k]) \o rest.results]

(* Lines 252-271: the fallbacks from the k-th on, each asked only when the *)
(* ones before it brought nothing; [] when none brings anything.           *)
RECURSIVE fallback_chain(_, _)
fallback_chain(answers, k) ==
    IF k > Len(Fallbacks) THEN [invoked |-> <<>>, results |-> <<>>]
    ELSE LET results == fallback_results(Fallbacks[k], answers[k])
         IN IF results # <<>>
            THEN [invoked |-> <<Fallbacks[k]>>, results |-> results]
            ELSE LET rest == fallback_chain(answers, k + 1)
                 IN [invoked |-> <<Fallbacks[k]>> \o rest.invoked,
                     results |-> rest.results]

(* The end of a primary search that brought nothing. *)
SearchFallbacks ==
    /\ finder.pc = "chain"
    /\ \E answers \in [DOMAIN Fallbacks -> FallbackAnswers] :
         LET r == fallback_chain(answers, 1)
         IN finder' = [finder EXCEPT !.last = [op |-> "fallbacks", answers |-> answers,
                                               invoked |-> r.invoked,
                                               results |-> r.results]]
    /\ UNCHANGED <<storeVars, wfVars, report, engine, social, orch, insta, threads>>

(* A primary search whose keys brought nothing. *)
FbInit ==
    /\ StoreInit /\ WfIdle
    /\ report = Idle /\ engine = Idle /\ social = Idle
    /\ orch = Idle /\ insta = Idle /\ threads = <<>>
    /\ finder = [pc |-> "chain", last |-> NoCall]

FbNext == SearchFallbacks

FbSpec == FbInit /\ [][FbNext]_vars

(* A finder as constructed from the environment: up to four adapter keys,  *)
(* one search-engine key or none, the image cap of MAX_IMAGES; the failed  *)
(* set is the one the finder's user left in the public attribute.          *)
VirInit ==
    /\ StoreInit /\ WfIdle
    /\ report = Idle /\ engine = Idle /\ social = Idle
    /\ orch = Idle /\ insta = Idle /\ threads = <<>>
    /\ \E n \in 0..MaxSerperKeys, c \in 0..1, m \in MaxImagesSettings :
         \E failed \in SUBSET (({"serper"} \X (0..(n - 1))) \cup ({"google_cse"} \X (0..(c - 1)))) :
           finder = [pc |-> "ready",
                     nkeys |-> [serper |-> n, google_cse |-> c],
                     cursor |-> [serper |-> 0, google_cse |-> 0],
                     failed |-> failed,
                     max_images |-> m,
                     queried |-> <<>>, all_results |-> <<>>,
                     last |-> NoCall]

VirNext ==
    \/ GetNextApiKey
    \/ CalculateViralScore
    \/ SearchImages
    \/ SearchVariant
    \/ ReturnImages

VirSpec == VirInit /\ [][VirNext]_vars

-----------------------------------------------------------------------------
(* services/enhanced_workflow.py: Orchestrator and ResultProcessor.  A raw *)
(* result is a dict whose title and link are present (<<v>>) or not (<<>>). *)
MaxResults == 2
RawResults ==
    [title : {<<>>, <<"Kit ">>, <<"N/A">>}, link : {<<>>, <<"http://a ">>}, source : {"s1", "s2"}]
RawLists == UNION {[1..n -> RawResults] : n \in 0..MaxResults}

(* dict.get(key, default) on a raw result *)
raw_get(v, default) == IF v = <<>> THEN default ELSE v[1]

(* str.strip() on the values above *)
strip(s) ==
    CASE s = "Kit " -> "Kit"
      [] s = "http://a " -> "http://a"
      [] OTHER -> s

(* utils.common.remove_special_characters strips a fixed set of special    *)
(* characters; whether '/' is one of them is a property of the build.      *)
remove_special_characters(s, strips_slash) ==
    IF strips_slash /\ s = "N/A" THEN "NA" ELSE s

(* One pass of the loop of process_results: the normalized result, or      *)
(* nothing when its title or its link is the default.                      *)
process_result(result, strips_slash) ==
    LET processed_result ==
            [title |-> remove_special_characters(strip(raw_get(result.title, "N/A")),
                                                 strips_slash),
             link |-> strip(raw_get(result.link, "#")),
             source |-> result.source]
    IN IF processed_result.title # "N/A" /\ processed_result.link # "#"
       THEN <<processed_result>>
       ELSE <<>>

RECURSIVE process_results(_, _)
process_results(results, strips_slash) ==
    IF results = <<>> THEN <<>>
    ELSE process_result(Head(results), strips_slash)
            \o process_results(Tail(results), strips_slash)

(* What a collaborator of the orchestrator can do: return or raise. *)
ContextOutcomes == {"dict", "none", "raises"}
MassiveShapes == {"absent", "list", "dict", "dict_failed", "raises"}
MassiveItems ==
    { <<>>,
      <<[title |-> <<"Kit ">>, link |-> <<"http://a ">>, source |-> "massive"]>> }
CallOutcomes == {"returns", "raises"}

(* The sub-lists remove_duplicates can return. *)
RECURSIVE SubLists(_)
SubLists(s) ==
    IF s = <<>> THEN {<<>>}
    ELSE LET rest == SubLists(Tail(s))
         IN rest \cup {<<Head(s)>> \o r : r \in rest}

error_return(session_id) ==
    [status |-> "error", fields |-> {"status", "message", "session_id"},
     session_id |-> session_id]

(* execute_workflow up to the try: the context and its two lookups. *)
ExecuteWorkflow ==
    /\ orch.pc = "ready"
    /\ \E context \in ContextOutcomes, session_id \in Sessions :
         orch' = IF context = "dict"
                 THEN [orch EXCEPT !.pc = "real_search", !.session_id = session_id,
                                   !.combined = <<>>, !.out = <<>>, !.last = NoCall]
                 ELSE [orch EXCEPT !.pc = "raised", !.session_id = session_id,
                                   !.out = <<>>, !.last = NoCall]
    /\ UNCHANGED <<storeVars, wfVars, report, engine, social, finder, insta, threads>>

RealSearch ==
    /\ orch.pc = "real_search"
    /\ \/ \E real_search_results \in RawLists :
            orch' = [orch EXCEPT !.pc = "massive_search",
                                 !.combined = real_search_results]
       \/ orch' = [orch EXCEPT !.pc = "returned",
                               !.out = <<error_return(orch.session_id)>>]
    /\ UNCHANGED <<storeVars, wfVars, report, engine, social, finder, insta, threads>>

MassiveSearch ==
    /\ orch.pc = "massive_search"
    /\ \E shape \in MassiveShapes, items \in MassiveItems :
         orch' = CASE shape = "raises" ->
                        [orch EXCEPT !.pc = "returned",
                                     !.out = <<error_return(orch.session_id)>>]
                   [] shape \in {"absent", "dict_failed"} ->
                        [orch EXCEPT !.pc = "process"]
                   [] OTHER ->
                        [orch EXCEPT !.pc = "process",
                                     !.combined = orch.combined \o items]
    /\ UNCHANGED <<storeVars, wfVars, report, engine, social, finder, insta, threads>>

(* remove_duplicates, process_results and generate_report, then the return. *)
ProcessAndReport ==
    /\ orch.pc = "process"
    /\ \E dedup \in CallOutcomes, processor \in CallOutcomes, generator \in CallOutcomes,
          unique \in SubLists(orch.combined) :
         orch' = IF dedup = "raises" \/ processor = "raises" \/ generator = "raises"
                 THEN [orch EXCEPT !.pc = "returned",
                                   !.out = <<error_return(orch.session_id)>>]
                 ELSE [orch EXCEPT
                         !.pc = "returned",
                         !.out = <<[status |-> "success",
                                    fields |-> {"status", "data", "report", "execution_time"},
                                    data |-> process_results(unique, orch.strips_slash)]>>]
    /\ UNCHANGED <<storeVars, wfVars, report, engine, social, finder, insta, threads>>

(* process_results called on a list of raw results. *)
ProcessResults ==
    /\ orch.pc = "ready"
    /\ \E results \in RawLists :
         orch' = [orch EXCEPT !.last = [op |-> "process_results", results |-> results,
                                        ret |-> process_results(results, orch.strips_slash)]]
    /\ UNCHANGED <<storeVars, wfVars, report, engine, social, finder, insta, threads>>

OrcInit ==
    /\ StoreInit /\ WfIdle
    /\ report = Idle /\ engine = Idle /\ social = Idle
    /\ finder = Idle /\ insta = Idle /\ threads = <<>>
    /\ \E strips_slash \in BOOLEAN :
         orch = [pc |-> "ready", strips_slash |-> strips_slash, session_id |-> "None",
                 combined |-> <<>>, out |-> <<>>, last |-> NoCall]

OrcNext ==
    \/ ExecuteWorkflow
    \/ RealSearch
    \/ MassiveSearch
    \/ ProcessAndReport
    \/ ProcessResults

OrcSpec == OrcInit /\ [][OrcNext]_vars

-----------------------------------------------------------------------------
(* services/instagram_playwright_extractor.py: login_instagram and         *)
(* extract_hashtag_images.  log is the sequence of things done to the page. *)
MaxPosts == 2
Hashtags == {"kit", "#curso"}
PageOutcomes == {"ok", "raises"}
AvatarOutcomes == {"avatar", "no_avatar", "raises"}

(* Extraction goes on whatever the login returned. *)
login_ignored(logged_in) == TRUE

(* if not await self.login_instagram(): raise *)
login_required(logged_in) == logged_in

(* The end of login_instagram: its result, and the extraction's next step. *)
login_returns(x, logged_in, log) ==
    [x EXCEPT !.log = log, !.logged_in = logged_in,
              !.pc = IF login_required(logged_in) THEN "navigate" ELSE "failed"]

ExtractHashtagImages ==
    /\ insta.pc \in {"ready", "returned"}
    /\ \E hashtag \in Hashtags :
         insta' = [insta EXCEPT !.pc = "login", !.hashtag = hashtag, !.log = <<>>,
                                !.logged_in = FALSE, !.images = <<>>]
    /\ UNCHANGED <<storeVars, wfVars, report, engine, social, finder, orch, threads>>

(* login_instagram to its first avatar check. *)
LoginHome ==
    /\ insta.pc = "login"
    /\ \E goto \in PageOutcomes, avatar \in AvatarOutcomes :
         LET log == insta.log \o <<"goto_home">>
         IN insta' =
              IF goto = "raises" THEN login_returns(insta, FALSE, log)
              ELSE IF avatar = "raises"
                   THEN login_returns(insta, FALSE, log \o <<"avatar_check">>)
              ELSE IF avatar = "avatar"
                   THEN login_returns(insta, TRUE, log \o <<"avatar_found">>)
              ELSE [insta EXCEPT !.log = log \o <<"avatar_check">>,
                                 !.pc = IF insta.session_cookie THEN "cookie"
                                        ELSE "credentials"]
    /\ UNCHANGED <<storeVars, wfVars, report, engine, social, finder, orch, threads>>

(* The session cookie, a reload and the second avatar check. *)
LoginCookie ==
    /\ insta.pc = "cookie"
    /\ \E reload \in PageOutcomes, avatar \in AvatarOutcomes :
         LET log == insta.log \o <<"add_cookie">>
         IN insta' =
              IF reload = "raises" \/ avatar = "raises"
              THEN login_returns(insta, FALSE, log)
              ELSE IF avatar = "avatar"
                   THEN login_returns(insta, TRUE, log \o <<"avatar_found">>)
              ELSE [insta EXCEPT !.log = log \o <<"avatar_check">>, !.pc = "credentials"]
    /\ UNCHANGED <<storeVars, wfVars, report, engine, social, finder, orch, threads>>

(* The login form, when a user name and a password are configured; the     *)
(* unusual-activity page and every other page end the login with False.    *)
LoginCredentials ==
    /\ insta.pc = "credentials"
    /\ IF ~insta.credentials
       THEN insta' = login_returns(insta, FALSE, insta.log)
       ELSE \E submit \in PageOutcomes, avatar \in AvatarOutcomes \cup {"unusual_activity"} :
              LET log == insta.log \o <<"fill_credentials">>
              IN insta' =
                   IF submit = "raises" \/ avatar = "raises"
                   THEN login_returns(insta, FALSE, log)
                   ELSE IF avatar = "avatar"
                        THEN login_returns(insta, TRUE, log \o <<"avatar_found">>)
                   ELSE IF avatar = "unusual_activity"
                        THEN login_returns(insta, FALSE, log \o <<"unusual_activity">>)
                   ELSE login_returns(insta, FALSE, log \o <<"avatar_check">>)
    /\ UNCHANGED <<storeVars, wfVars, report, engine, social, finder, orch, threads>>

(* raise Exception("Falha no login do Instagram"), caught: return [] *)
LoginFailed ==
    /\ insta.pc = "failed"
    /\ insta' = [insta EXCEPT !.pc = "returned", !.images = <<>>]
    /\ UNCHANGED <<storeVars, wfVars, report, engine, social, finder, orch, threads>>

(* The hashtag page. *)
Navigate ==
    /\ insta.pc = "navigate"
    /\ \E goto \in PageOutcomes :
         insta' = IF goto = "raises"
                  THEN [insta EXCEPT !.pc = "returned", !.images = <<>>,
                                     !.log = insta.log \o <<"goto_hashtag">>]
                  ELSE [insta EXCEPT !.pc = "collect",
                                     !.log = insta.log \o <<"goto_hashtag">>]
    /\ UNCHANGED <<storeVars, wfVars, report, engine, social, finder, orch, threads>>

(* One post with an image: its download, then its entry. *)
CollectPost ==
    /\ insta.pc = "collect"
    /\ Len(insta.images) < MaxPosts
    /\ \E local_path \in {"file", "None"} :
         insta' = [insta EXCEPT
                     !.log = insta.log \o <<"download">>,
                     !.images = Append(insta.images,
                                       [hashtag |-> insta.hashtag, local_path |-> local_path])]
    /\ UNCHANGED <<storeVars, wfVars, report, engine, social, finder, orch, threads>>

(* The end of the scrolls, or an exception of the page in between. *)
ReturnImagesData ==
    /\ insta.pc = "collect"
    /\ \E page \in PageOutcomes :
         insta' = [insta EXCEPT !.pc = "returned",
                                !.images = IF page = "raises" THEN <<>> ELSE insta.images]
    /\ UNCHANGED <<storeVars, wfVars, report, engine, social, finder, orch, threads>>

InsInit ==
    /\ StoreInit /\ WfIdle
    /\ report = Idle /\ engine = Idle /\ social = Idle
    /\ finder = Idle /\ orch = Idle /\ threads = <<>>
    /\ \E session_cookie \in BOOLEAN, credentials \in BOOLEAN :
         insta = [pc |-> "ready", session_cookie |-> session_cookie,
                  credentials |-> credentials, hashtag |-> "None",
                  log |-> <<>>, logged_in |-> FALSE, images |-> <<>>]

InsNext ==
    \/ ExtractHashtagImages
    \/ LoginHome
    \/ LoginCookie
    \/ LoginCredentials
    \/ LoginFailed
    \/ Navigate
    \/ CollectPost
    \/ ReturnImagesData

InsSpec == InsInit /\ [][InsNext]_vars

-----------------------------------------------------------------------------
(* services/auto_save_manager.py: salvar_etapa called by two threads on    *)
(* one session.  The store takes no lock, so the threads interleave        *)
(* between the statements of salvar_etapa and of _save_unified_json.  mem  *)
(* is the session in session_data (<<>>: no entry, <<steps>>: its          *)
(* extraction_steps), file its unified JSON file.                          *)
Threads == {1, 2}
ThreadSteps == [Threads -> {"etapa_a", "etapa_b", "etapa_c"}]

(* if session_id not in self.session_data *)
ThreadCheck(t) ==
    /\ threads.t[t].pc = "check"
    /\ threads' = [threads EXCEPT
                     !.t[t].pc = IF threads.mem = <<>> THEN "create" ELSE "append"]
    /\ UNCHANGED <<storeVars, wfVars, report, engine, social, finder, orch, insta>>

(* self.session_data[session_id] = self._create_session_structure(...) *)
ThreadCreate(t) ==
    /\ threads.t[t].pc = "create"
    /\ threads' = [threads EXCEPT !.mem = << <<>> >>, !.t[t].pc = "append"]
    /\ UNCHANGED <<storeVars, wfVars, report, engine, social, finder, orch, insta>>

(* self.session_data[session_id]["extraction_steps"].append(etapa_data) *)
ThreadAppend(t) ==
    /\ threads.t[t].pc = "append"
    /\ threads' = [threads EXCEPT !.mem = <<Append(threads.mem[1], threads.t[t].nome)>>,
                                  !.t[t].pc = "dump"]
    /\ UNCHANGED <<storeVars, wfVars, report, engine, social, finder, orch, insta>>

(* _save_unified_json: the file is opened and the session serialized ... *)
ThreadDump(t) ==
    /\ threads.t[t].pc = "dump"
    /\ threads' = [threads EXCEPT !.t[t].snapshot = threads.mem[1],
                                  !.t[t].pc = "close"]
    /\ UNCHANGED <<storeVars, wfVars, report, engine, social, finder, orch, insta>>

(* ... and closed, which puts the serialized text in the file; the per-step *)
(* file follows and salvar_etapa returns.                                   *)
ThreadClose(t) ==
    /\ threads.t[t].pc = "close"
    /\ threads' = [threads EXCEPT !.file = <<threads.t[t].snapshot>>,
                                  !.t[t].pc = "done"]
    /\ UNCHANGED <<storeVars, wfVars, report, engine, social, finder, orch, insta>>

(* Two calls about to start, on a session that is new or has one step. *)
ThrInit ==
    /\ StoreInit /\ WfIdle
    /\ report = Idle /\ engine = Idle /\ social = Idle
    /\ finder = Idle /\ orch = Idle /\ insta = Idle
    /\ \E existing \in {<<>>, << <<"etapa_0">> >>}, nomes \in ThreadSteps :
         /\ nomes[1] # nomes[2]
         /\ threads = [mem |-> existing, file |-> existing, first_write |-> existing = <<>>,
                       t |-> [t \in Threads |->
                                [pc |-> "check", nome |-> nomes[t], snapshot |-> <<>>]]]

ThrNext ==
    \E t \in Threads :
        \/ ThreadCheck(t)
        \/ ThreadCreate(t)
        \/ ThreadAppend(t)
        \/ ThreadDump(t)
        \/ ThreadClose(t)

ThrSpec == ThrInit /\ [][ThrNext]_vars

-----------------------------------------------------------------------------
(* Web-research excerpts: AutoSaveManager.salvar_trecho_pesquisa_web       *)
(* writes them, _load_all_saved_excerpts of the routes reads them back.    *)
Trechos == {"texto a", "texto b"}

(* salvar_trecho_pesquisa_web: the excerpt as a step of category            *)
(* pesquisa_web named after the second it was saved in.                     *)
salvar_trecho_pesquisa_web(trecho, url, session_id) ==
    salvar_etapa(session_id, "trecho_web_" \o ToString(now),
                 [trecho |-> [content |-> trecho], url |-> url,
                  extraction_method |-> "web_search"],
                 "pesquisa_web", generated)

(* The files _load_all_saved_excerpts opens for a session: every file of   *)
(* analyses_data/pesquisa_web/<session_id>, and the files of               *)
(* relatorios_intermediarios/pesquisa_web with the session id in the name. *)
excerpt_paths(files, session_id) ==
    {p \in DOMAIN files :
        \/ p.dir = <<"analyses_data", "pesquisa_web", session_id>>
        \/ /\ p.dir = <<"relatorios_intermediarios", "pesquisa_web">>
           /\ \E i \in DOMAIN p.name : p.name[i] = session_id}

(* os.listdir: the files in some order. *)
RECURSIVE listdir(_, _)
listdir(files, paths) ==
    IF paths = {} THEN <<>>
    ELSE LET p == CHOOSE q \in paths : TRUE
         IN <<files[p]>> \o listdir(files, paths \ {p})

SalvarTrechoPesquisaWeb ==
    /\ ops < MaxOps
    /\ ops' = ops + 1
    /\ \E trecho \in Trechos, session_id \in Sessions :
         salvar_trecho_pesquisa_web(trecho, "http://a", session_id)
    /\ UNCHANGED <<wfVars, svcVars>>

(* _load_all_saved_excerpts(session_id), as the report assembly calls it. *)
LoadAllSavedExcerpts ==
    /\ \E session_id \in Sessions :
         report' = [pc |-> "loaded", session_id |-> session_id,
                    excerpts |-> load_all_saved_excerpts(
                                    listdir(mirror_files,
                                            excerpt_paths(mirror_files, session_id)))]
    /\ UNCHANGED <<storeVars, wfVars, engine, social, lateVars>>

ExcInit == StoreInit /\ WfIdle /\ SvcIdle

ExcNext ==
    \/ SalvarTrechoPesquisaWeb
    \/ LoadAllSavedExcerpts
    \/ Tick
    \/ DiskChange

ExcSpec == ExcInit /\ [][ExcNext]_vars

-----------------------------------------------------------------------------
(* _search_serper_images run by several callers on the one finder: each    *)
(* caller has its own loop over range(len(keys)), all share the cursor,    *)
(* and a caller can be suspended at every await between two key calls.     *)
Callers == {1, 2}

(* One pass of the loop of a caller: a key from the rotation, the request  *)
(* with it, and the return when it brought results; the fallback chain     *)
(* starts when no key is handed out or the loop is through.                *)
SerperAttempt(c) ==
    /\ threads[c].pc = "serper"
    /\ LET n == finder.nkeys.serper
           r == get_next_api_key(finder, "serper")
       IN IF threads[c].attempt >= n
          THEN /\ threads' = [threads EXCEPT ![c].pc = "fallback"]
               /\ finder' = finder
          ELSE IF r.key = NoKey
          THEN /\ threads' = [threads EXCEPT ![c].pc = "fallback"]
               /\ finder' = r.f
          ELSE /\ \E response \in {"results", "no_results", "no_credits", "raises"} :
                    threads' = [threads EXCEPT
                        ![c].tried = @ \cup {r.key},
                        ![c].attempt = @ + 1,
                        ![c].pc = IF response = "results" THEN "returned" ELSE "serper"]
               /\ finder' = r.f
    /\ UNCHANGED <<storeVars, wfVars, report, engine, social, orch, insta>>

(* Two searches about to start on a finder with at least one key. *)
KeyInit ==
    /\ StoreInit /\ WfIdle
    /\ report = Idle /\ engine = Idle /\ social = Idle
    /\ orch = Idle /\ insta = Idle
    /\ \E n \in 1..MaxSerperKeys, start \in 0..(MaxSerperKeys - 1) :
         \E failed \in SUBSET ({"serper"} \X (0..(n - 1))) :
           /\ start < n
           /\ finder = [pc |-> "shared",
                        nkeys |-> [serper |-> n, google_cse |-> 0],
                        cursor |-> [serper |-> start, google_cse |-> 0],
                        failed |-> failed,
                        max_images |-> 30,
                        queried |-> <<>>, all_results |-> <<>>,
                        last |-> NoCall]
    /\ threads = [c \in Callers |-> [pc |-> "serper", attempt |-> 0, tried |-> {}]]

KeyNext == \E c \in Callers : SerperAttempt(c)

KeySpec == KeyInit /\ [][KeyNext]_vars

-----------------------------------------------------------------------------
(* _extract_facebook_images and _extract_youtube_images on the answers of  *)
(* their two backends.                                                      *)
TopUpCounts == {0, 2, 4, 6, 8, 10, 12}
first_backend(platform) == IF platform = "facebook" THEN "apify" ELSE "youtube_api"
second_backend(platform) == IF platform = "facebook" THEN "serper" ELSE "apify"

ExtractPlatformImages ==
    /\ social.pc = "subtask"
    /\ \E platform \in {"facebook", "youtube"} :
         \E first \in BackendResults(first_backend(platform), TopUpCounts),
            second \in BackendResults(second_backend(platform), TopUpCounts) :
           social' = [pc |-> "subtask", platform |-> platform,
                      first |-> first, second |-> second,
                      ret |-> return_or_empty(
                                 extract_with_fallback(first, second, limit_of(platform)),
                                 limit_of(platform))]
    /\ UNCHANGED <<storeVars, wfVars, report, engine, lateVars>>

TopInit ==
    /\ StoreInit /\ WfIdle
    /\ report = Idle /\ engine = Idle
    /\ social = [pc |-> "subtask", platform |-> "none"]
    /\ LateIdle

TopNext == ExtractPlatformImages

TopSpec == TopInit /\ [][TopNext]_vars

-----------------------------------------------------------------------------
(* services/enhanced_workflow.py: the local MassiveSearchEngine.  An       *)
(* adapter is not registered, raises, or returns a list of results.        *)
AdapterCounts == 0..8
AdapterOutcomes(source) ==
    {[kind |-> "absent"], [kind |-> "raises"]} \cup
    {[kind |-> "list", results |-> Images(source, n)] : n \in AdapterCounts}

(* execute_massive_search: Google, then Bing, each when registered, inside *)
(* one try whose handler returns [].                                       *)
local_massive_search(google, bing) ==
    LET after_google == IF google.kind = "list" THEN google.results ELSE <<>>
    IN IF google.kind = "raises" THEN <<>>
       ELSE IF bing.kind = "raises" THEN <<>>
       ELSE IF bing.kind = "list" THEN after_google \o bing.results
       ELSE after_google

LocalMassiveSearch ==
    /\ orch.pc = "local"
    /\ \E google \in AdapterOutcomes("google"), bing \in AdapterOutcomes("bing") :
         orch' = [pc |-> "local", called |-> TRUE, google |-> google, bing |-> bing,
                  ret |-> local_massive_search(google, bing)]
    /\ UNCHANGED <<storeVars, wfVars, report, engine, social, finder, insta, threads>>

LmInit ==
    /\ StoreInit /\ WfIdle
    /\ report = Idle /\ engine = Idle /\ social = Idle
    /\ finder = Idle /\ insta = Idle /\ threads = <<>>
    /\ orch = [pc |-> "local", called |-> FALSE]

LmNext == LocalMassiveSearch

LmSpec == LmInit /\ [][LmNext]_vars

-----------------------------------------------------------------------------
(* Orchestrator.execute_workflow with the massive-search adapters of this  *)
(* repository.  Calling execute_massive_search gives a plain value (the    *)
(* local engine's def) or a coroutine (the service's async def).            *)
LocalEngineCalls ==
    {[adapter |-> "local", awaitable |-> FALSE,
      value |-> [kind |-> "list", items |-> local_massive_search(google, bing)]] :
        google \in AdapterOutcomes("google"), bing \in AdapterOutcomes("bing")}

(* services/massive_search_engine.execute_massive_search returns the       *)
(* bundle (from the store's save or as it stands), whose keys are those of *)
(* massive_data, or on an exception a dict with success False.             *)
ServiceCounts == 0..2
ServiceEngineCalls ==
    {[adapter |-> "service", awaitable |-> TRUE,
      value |-> [kind |-> "dict", success |-> <<>>, data |-> <<>>,
                 busca_massiva |->
                    <<[alibaba_websailor_results |-> Images("websailor", n),
                       real_search_orchestrator_results |-> <<>>]>>]] :
        n \in ServiceCounts}
    \cup
    {[adapter |-> "service", awaitable |-> TRUE,
      value |-> [kind |-> "dict", success |-> <<FALSE>>, data |-> <<>>,
                 busca_massiva |-> <<>>]]}

(* loop.run_until_complete(x): TypeError unless x is awaitable. *)
run_until_complete(call) ==
    IF call.awaitable THEN [raised |-> FALSE, value |-> call.value]
    ELSE [raised |-> TRUE]

(* What execute_workflow adds to combined_results for massive_results: a   *)
(* list as it is; a dict only when its 'success' is truthy, and then the   *)
(* two lists under data.busca_massiva.                                      *)
massive_extend(massive_results) ==
    IF massive_results.kind = "list" THEN massive_results.items
    ELSE IF massive_results.success = <<TRUE>>
         THEN IF massive_results.data = <<>> THEN <<>>
              ELSE LET busca_data == massive_results.data[1]
                   IN busca_data.alibaba_websailor_results
                        \o busca_data.real_search_orchestrator_results
         ELSE <<>>

RealCounts == 0..1

(* execute_workflow from the real search to the return. *)
workflow_with(call, real_search_results, rest, session_id) ==
    LET massive_results == run_until_complete(call)
    IN IF massive_results.raised
       THEN [combined |-> <<>>, out |-> error_return(session_id)]
       ELSE LET combined_results ==
                    real_search_results \o massive_extend(massive_results.value)
            IN [combined |-> combined_results,
                out |-> IF rest = "raises" THEN error_return(session_id)
                        ELSE [status |-> "success",
                              fields |-> {"status", "data", "report", "execution_time"},
                              session_id |-> session_id]]

AdapterWorkflow ==
    /\ orch.pc = "adapters"
    /\ \E call \in LocalEngineCalls \cup ServiceEngineCalls, n \in RealCounts,
          rest \in CallOutcomes, session_id \in Sessions :
         LET r == workflow_with(call, Images("real", n), rest, session_id)
         IN orch' = [pc |-> "adapters", called |-> TRUE, call |-> call,
                     rest |-> rest, combined |-> r.combined, out |-> r.out]
    /\ UNCHANGED <<storeVars, wfVars, report, engine, social, finder, insta, threads>>

AdInit ==
    /\ StoreInit /\ WfIdle
    /\ report = Idle /\ engine = Idle /\ social = Idle
    /\ finder = Idle /\ insta = Idle /\ threads = <<>>
    /\ orch = [pc |-> "adapters", called |-> FALSE]

AdNext == AdapterWorkflow

AdSpec == AdInit /\ [][AdNext]_vars

-----------------------------------------------------------------------------
(* services/massive_search_engine.py, _consolidate_all_saved_data: the     *)
(* structure it fills and its collection of the web-research excerpts.     *)
(* A dict is a function from its keys; a file of the research directory is *)
(* absent, parseable ("ok") or not parseable ("bad").                      *)
dados_consolidados_keys ==
    {"textos_pesquisa_web", "textos_redes_sociais", "insights_extraidos",
     "trechos_navegacao", "metadados_fontes", "etapas_extracao",
     "modulos_analises", "jsons_gigantes", "resultados_virais",
     "metadata_consolidacao"}
new_dados_consolidados == [k \in dados_consolidados_keys |-> <<>>]

ResearchNames == <<"consolidado.json", "trecho_1.json", "trecho_2.json", "nota.txt">>
FileStates == {"absent", "ok", "bad"}
ResearchDirs ==
    {[exists |-> FALSE, session |-> <<>>], [exists |-> TRUE, session |-> <<>>]}
    \cup {[exists |-> TRUE, session |-> <<files>>] :
            files \in [1..Len(ResearchNames) -> FileStates]}

endswith_json(name) == name # "nota.txt"

(* d[key].append(item): KeyError when d has no such key. *)
dict_append(d, key, item) ==
    IF key \in DOMAIN d
    THEN [raised |-> FALSE, d |-> [d EXCEPT ![key] = Append(@, item)]]
    ELSE [raised |-> TRUE, d |-> d]

(* json.load of one file and the append of its entry, inside the try whose *)
(* handler logs and goes on: the structure afterwards.                    *)
load_trecho(d, name, state, tipo) ==
    IF state = "bad" THEN d
    ELSE dict_append(d, "trechos_pesquisa_web",
                     [arquivo_origem |-> name, tipo |-> tipo]).d

RECURSIVE load_trechos(_, _, _)
load_trechos(d, files, i) ==
    IF i > Len(ResearchNames) THEN d
    ELSE LET name == ResearchNames[i]
             next == IF files[i] # "absent" /\ endswith_json(name)
                        /\ name # "consolidado.json"
                     THEN load_trecho(d, name, files[i], "trecho_individual")
                     ELSE d
         IN load_trechos(next, files, i + 1)

(* Step 5: consolidado.json of the session, then every other .json file of *)
(* the session's directory; then the log line that reads the list; all in  *)
(* one try whose handler logs.                                              *)
coleta_trechos_pesquisa_web(d, research) ==
    IF ~research.exists \/ research.session = <<>> THEN d
    ELSE LET files == research.session[1]
             with_consolidado ==
                 IF files[1] # "absent"
                 THEN load_trecho(d, ResearchNames[1], files[1], "consolidado_sessao")
                 ELSE d
         IN load_trechos(with_consolidado, files, 1)

(* The call: the structure is attached to the bundle, which is returned.   *)
(* The other collections fill other keys of the structure, each in a try   *)
(* of its own.                                                              *)
ConsolidateAllSavedData ==
    /\ engine.pc = "consolidate"
    /\ \E research \in ResearchDirs, produto \in Produtos :
         LET massive_data == new_massive_data(produto)
             dados_consolidados ==
                 coleta_trechos_pesquisa_web(new_dados_consolidados, research)
         IN engine' = [pc |-> "consolidate", called |-> TRUE, research |-> research,
                       ret |-> [massive_data EXCEPT
                                  !.dados_consolidados_texto = <<dados_consolidados>>]]
    /\ UNCHANGED <<storeVars, wfVars, report, social, lateVars>>

CsInit ==
    /\ StoreInit /\ WfIdle
    /\ report = Idle /\ social = Idle /\ LateIdle
    /\ engine = [pc |-> "consolidate", called |-> FALSE]

CsNext == ConsolidateAllSavedData

CsSpec == CsInit /\ [][CsNext]_vars

-----------------------------------------------------------------------------
(* services/viral_integration_service.py, _download_image.  The response   *)
(* has a status, a content type ("" when the header is missing) and a body *)
(* of size bytes, of which written reach the file before the write ends or *)
(* raises.                                                                  *)
min_image_bytes == 1000
ImageSizes == {0, 999, 1000, 1001, 2000}
ContentTypes == {"image/jpeg", "image/jpg", "image/png", "image/webp", "image/gif",
                 "text/html", ""}
Downloads ==
    {d \in [http_ok : BOOLEAN, content_type : ContentTypes, size : ImageSizes,
            written : ImageSizes, has_async_deps : BOOLEAN] :
        d.written <= d.size}

(* 'image' in content_type *)
is_image(content_type) ==
    content_type \in {"image/jpeg", "image/jpg", "image/png", "image/webp", "image/gif"}

(* the extension chosen from the content type *)
image_ext(content_type) ==
    CASE content_type \in {"image/jpeg", "image/jpg"} -> ".jpg"
      [] content_type = "image/png" -> ".png"
      [] content_type = "image/webp" -> ".webp"
      [] OTHER -> ".jpg"

(* The call: raise_for_status, the content type test, the write, then the  *)
(* size test that returns the path or removes the file; any exception is   *)
(* caught by the outer handler, which returns None.  file is what is at    *)
(* the path afterwards.  Both branches (aiohttp, requests) do the same.    *)
download_image(d, filename) ==
    LET filepath == <<filename, image_ext(d.content_type)>>
    IN IF ~d.http_ok THEN [file |-> <<>>, ret |-> <<>>]
       ELSE IF ~is_image(d.content_type) THEN [file |-> <<>>, ret |-> <<>>]
       ELSE IF d.written < d.size
            THEN [file |-> <<[path |-> filepath, bytes |-> d.written]>>, ret |-> <<>>]
       ELSE IF d.written > min_image_bytes
            THEN [file |-> <<[path |-> filepath, bytes |-> d.written]>>,
                  ret |-> <<filepath>>]
       ELSE [file |-> <<>>, ret |-> <<>>]

DownloadImage ==
    /\ finder.pc = "download"
    /\ \E d \in Downloads :
         LET r == download_image(d, "img_1")
         IN finder' = [pc |-> "download", called |-> TRUE, download |-> d,
                       file |-> r.file, ret |-> r.ret]
    /\ UNCHANGED <<storeVars, wfVars, report, engine, social, orch, insta, threads>>

DwInit ==
    /\ StoreInit /\ WfIdle
    /\ report = Idle /\ engine = Idle /\ social = Idle
    /\ orch = Idle /\ insta = Idle /\ threads = <<>>
    /\ finder = [pc |-> "download", called |-> FALSE]

DwNext == DownloadImage

DwSpec == DwInit /\ [][DwNext]_vars

Init == StoreInit /\ WfIdle /\ SvcIdle
Next ==
    \/ SalvarEtapa
    \/ SalvarModulo
    \/ SalvarJsonGigante
    \/ SalvarScreenshot
    \/ SalvarErro
    \/ RecuperarEtapa
    \/ Restart
    \/ Tick
    \/ DiskChange
Spec == Init /\ [][Next]_vars

-----------------------------------------------------------------------------
(* The store: claims C1 to C5. *)

(* A step of the run is a call of the store, and which one. *)
Called(op) == lastOp'.n # lastOp.n /\ lastOp'.op = op
CalledStore == lastOp'.n # lastOp.n /\ lastOp'.op # "restart"

(* C1: every successful save-step call appends exactly one step record at  *)
(* the end of its session's step list, whatever its name, and no store     *)
(* operation removes, rewrites or reorders a step record of any session.   *)
C1_StepsAppendOnly ==
    [][ /\ CalledStore =>
            \A s \in DOMAIN session_data :
                /\ s \in DOMAIN session_data'
                /\ IsPrefix(session_data[s].extraction_steps,
                            session_data'[s].extraction_steps)
        /\ (Called("salvar_etapa") /\ lastOp'.ret # <<>>) =>
            LET s == lastOp'.session_id
                new == session_data'[s].extraction_steps
            IN /\ Len(new) = Len(StepsOf(session_data, s)) + 1
               /\ new[Len(new)].nome = lastOp'.nome
               /\ new[Len(new)].dados = lastOp'.dados
               /\ \A o \in DOMAIN session_data \ {s} :
                     session_data'[o].extraction_steps =
                         session_data[o].extraction_steps
        /\ (CalledStore /\ lastOp'.op # "salvar_etapa") =>
            \A s \in DOMAIN session_data' :
                session_data'[s].extraction_steps = StepsOf(session_data, s)
      ]_vars

(* Two successful saves of the same step name have left two entries. *)
C1_Witness ==
    /\ lastOp.op = "salvar_etapa" /\ lastOp.ret # <<>> /\ lastOp.existed
    /\ LET steps == session_data[lastOp.session_id].extraction_steps
       IN /\ Len(steps) = 2
          /\ steps[1].nome = steps[2].nome
          /\ steps[1].dados # steps[2].dados

(* Where a step record can be found on disk. *)
InUnified(session_id, etapa) ==
    /\ session_id \in DOMAIN unified_file
    /\ unified_file[session_id].parseable
    /\ etapa \in Range(unified_file[session_id].doc[1].extraction_steps)
InMirror(etapa) ==
    \E p \in DOMAIN mirror_files :
        /\ p.dir = <<"analyses_data", "relatorios_intermediarios", etapa.categoria>>
        /\ mirror_files[p].parseable
        /\ mirror_files[p].doc[1] = etapa

(* C2: every step ever recorded for a session, of whose two writes at most *)
(* one failed, is in the session's unified JSON document or in a mirror    *)
(* file under relatorios_intermediarios/<category>/.                       *)
C2_EveryStepPersisted ==
    \A s \in DOMAIN history :
        \A i \in DOMAIN history[s] :
            (history[s][i].unified = "ok" \/ history[s][i].mirror = "ok") =>
                InUnified(s, history[s][i].etapa) \/ InMirror(history[s][i].etapa)

(* C3: every rewrite of <session_id>_unified.json that succeeds keeps the  *)
(* step records the file held before, restarts of the process included.    *)
C3_LedgerAppendOnly ==
    [][ \A s \in DOMAIN unified_file :
            (unified_file[s].parseable /\ unified_file'[s].parseable) =>
                IsPrefix(unified_file[s].doc[1].extraction_steps,
                         unified_file'[s].doc[1].extraction_steps)
      ]_vars

(* C4: a save-module call leaves exactly one record under the saved name,  *)
(* holding the payload of this save, and changes no record under another   *)
(* name or in another session; no other store call changes a module map.   *)
C4_ModuleUpsert ==
    [][ /\ Called("salvar_modulo") =>
            LET s == lastOp'.session_id
                m == lastOp'.nome
                old == ModulesOf(session_data, s)
                new == session_data'[s].final_modules
            IN /\ DOMAIN new = DOMAIN old \cup {m}
               /\ new[m].nome = m
               /\ new[m].dados = lastOp'.dados
               /\ \A k \in DOMAIN old \ {m} : new[k] = old[k]
               /\ \A o \in DOMAIN session_data \ {s} :
                     session_data'[o].final_modules = session_data[o].final_modules
        /\ (CalledStore /\ lastOp'.op # "salvar_modulo") =>
            \A s \in DOMAIN session_data' :
                session_data'[s].final_modules = ModulesOf(session_data, s)
      ]_vars

(* Module m was saved over an earlier record, beside a module n. *)
C4_Witness ==
    /\ lastOp.op = "salvar_modulo" /\ lastOp.existed
    /\ LET mods == session_data[lastOp.session_id].final_modules
       IN /\ DOMAIN mods = {"m", "n"}
          /\ mods[lastOp.nome].dados = lastOp.dados

(* The step list recover-step reads: the unified file when it exists (a    *)
(* file that does not parse holds no step), else the in-memory session.    *)
PersistedSteps(session_id) ==
    IF session_id \in DOMAIN unified_file
    THEN IF unified_file[session_id].parseable
         THEN unified_file[session_id].doc[1].extraction_steps
         ELSE <<>>
    ELSE StepsOf(session_data, session_id)

(* C5: recover-step returns the first record of the persisted step list    *)
(* that bears the name, {} when there is none; after a successful save of  *)
(* a name not yet used in the session it returns a record with the saved   *)
(* dados and categoria.                                                    *)
C5_RecoverStep ==
    /\ lastOp.op = "recuperar_etapa" =>
          LET steps == PersistedSteps(lastOp.session_id)
              named == {i \in DOMAIN steps : steps[i].nome = lastOp.nome}
          IN IF named = {} THEN lastOp.rec = <<>>
             ELSE /\ Len(lastOp.rec) = 1
                  /\ \E i \in named : /\ lastOp.rec[1] = steps[i]
                                       /\ \A j \in named : i <= j
    /\ (lastOp.op = "salvar_etapa" /\ lastOp.ret # <<>> /\ ~lastOp.existed) =>
          LET r == recuperar_etapa(unified_file, session_data, lastOp.session_id,
                                   lastOp.nome)
          IN /\ Len(r) = 1
             /\ r[1].dados = lastOp.dados
             /\ r[1].categoria = lastOp.categoria

(* recover-step has returned the first of two records of the same name. *)
C5_Witness ==
    /\ lastOp.op = "recuperar_etapa"
    /\ Len(lastOp.rec) = 1
    /\ LET steps == PersistedSteps(lastOp.session_id)
       IN /\ Len(steps) = 2
          /\ steps[1].nome = steps[2].nome
          /\ steps[1] # steps[2]
          /\ lastOp.rec[1] = steps[1]

-----------------------------------------------------------------------------
(* The workflow routes: claims C6 to C10. *)

Pos(log, call) == CHOOSE i \in DOMAIN log : log[i] = call
Invoked(task, call) == call \in Range(task.log)
Before(task, a, b) ==
    Invoked(task, a) /\ Pos(task.log, a) < Pos(task.log, b)
TerminalSteps(kind) == {ConcludedStep(kind), ErrorStep(kind)}

(* C6: a background task that has ended has recorded exactly one terminal  *)
(* step, <etapaN>_concluida or <etapaN>_erro (workflow_completo or         *)
(* workflow_erro for /workflow/complete), also when the collaborator       *)
(* services could not be loaded.                                           *)
C6_OneTerminalStep ==
    \A i \in DOMAIN tasks :
        tasks[i].state = "done" =>
            /\ Len(tasks[i].recorded) = 1
            /\ tasks[i].recorded[1] \in TerminalSteps(tasks[i].kind)

(* A task has ended at get_services() returning None. *)
C6_Witness ==
    \E i \in DOMAIN tasks :
        /\ tasks[i].state = "done"
        /\ tasks[i].log = <<"get_services">>
        /\ ~tasks[i].raised
        /\ tasks[i].recorded = <<>>

(* A request to a start route has been answered in this step. *)
StartRoutes == {"step1", "step2", "step3", "complete"}
Answered(route) == lastResp'.n # lastResp.n /\ lastResp'.route = route

(* C7: a start route that gets a request without its required field        *)
(* (segmento for step1 and complete, session_id for step2 and step3)       *)
(* answers 400, starts no background task and writes no step record.       *)
C7_FailFast ==
    [][ \A r \in StartRoutes :
            (Answered(r) /\ lastResp'.req \in {"", None}) =>
                /\ lastResp'.code = 400
                /\ tasks' = tasks
                /\ history' = history
      ]_vars

(* /workflow/complete has answered 200 to a request with a blank segmento  *)
(* and its task is running. *)
C7_Witness ==
    /\ lastResp.route = "complete" /\ lastResp.req = "" /\ lastResp.code = 200
    /\ \E i \in DOMAIN tasks : /\ tasks[i].kind = "complete"
                               /\ tasks[i].session_id = lastResp.session_id

ReportSaved(session_id) ==
    /\ Exists(markers, marker_path(session_id, "relatorio_coleta.md"))
    /\ markers[marker_path(session_id, "relatorio_coleta.md")].parseable

(* The order of the calls of a /workflow/complete task, and what a raise   *)
(* does to it. *)
CompleteOrder(task) ==
    /\ Invoked(task, "execute_enhanced_synthesis") =>
          /\ Before(task, "generate_collection_report", "save_collection_report")
          /\ Before(task, "save_collection_report", "execute_enhanced_synthesis")
    /\ Invoked(task, "generate_all_modules") =>
          /\ Before(task, "execute_enhanced_synthesis", "generate_all_modules")
    /\ Invoked(task, "compile_final_markdown_report") =>
          /\ Before(task, "generate_all_modules", "compile_final_markdown_report")
    /\ \A i, j \in DOMAIN task.log : task.log[i] = task.log[j] => i = j
    /\ task.raised =>
          /\ task.state = "done"
          /\ task.recorded = <<"workflow_erro">>
    /\ "workflow_erro" \in Range(task.recorded) =>
          /\ task.raised
          /\ task.state = "done"
    /\ "workflow_completo" \in Range(task.recorded) => ~task.raised

(* C8 as stated: in a /workflow/complete task synthesis is invoked only    *)
(* after the collection report has been generated and saved, module        *)
(* generation only after synthesis has returned; a raise ends the task     *)
(* with workflow_erro recorded and workflow_completo not.                  *)
C8_ReportSavedBeforeSynthesis ==
    \A i \in DOMAIN tasks :
        tasks[i].kind = "complete" =>
            /\ CompleteOrder(tasks[i])
            /\ Invoked(tasks[i], "execute_enhanced_synthesis") =>
                  ReportSaved(tasks[i].session_id)

(* C8, amended: in a /workflow/complete task synthesis is invoked only     *)
(* after the collection report has been generated and the call that saves  *)
(* it has returned, whether or not the file was written; module generation *)
(* only after synthesis has returned; a raise ends the task with           *)
(* workflow_erro recorded and workflow_completo not.                       *)
C8_CompleteInOrder ==
    \A i \in DOMAIN tasks :
        tasks[i].kind = "complete" => CompleteOrder(tasks[i])

(* Module generation has raised in a task whose report was not written. *)
C8_Witness ==
    \E i \in DOMAIN tasks :
        /\ tasks[i].kind = "complete"
        /\ tasks[i].raised
        /\ tasks[i].log[Len(tasks[i].log)] = "generate_all_modules"
        /\ ~ReportSaved(tasks[i].session_id)
        /\ tasks[i].recorded = <<"workflow_erro">>

(* C9: the body of GET /workflow/status/<id> is a function of the three    *)
(* marker files of the session: stepN is completed iff marker N exists,    *)
(* current_step and progress_percentage are those of the highest marker    *)
(* present, and the answer is 200 also for a session never started.        *)
C9_StatusFromMarkers ==
    [][ Answered("status") =>
          LET sid == lastResp'.session_id
              st == lastResp'.body[1]
              m1 == Exists(markers, marker_path(sid, "relatorio_coleta.md"))
              m2 == Exists(markers, marker_path(sid, "resumo_sintese.json"))
              m3 == Exists(markers, marker_path(sid, "relatorio_final.md"))
          IN /\ lastResp'.code = 200
             /\ st.session_id = lastResp'.req
             /\ st.step_status.step1 = (IF m1 THEN "completed" ELSE "pending")
             /\ st.step_status.step2 = (IF m2 THEN "completed" ELSE "pending")
             /\ st.step_status.step3 = (IF m3 THEN "completed" ELSE "pending")
             /\ st.current_step =
                   (IF m3 THEN 3 ELSE IF m2 THEN 2 ELSE IF m1 THEN 1 ELSE 0)
             /\ st.progress_percentage =
                   (IF m3 THEN 100 ELSE IF m2 THEN 66 ELSE IF m1 THEN 33 ELSE 0)
             /\ st.estimated_remaining =
                   (IF m3 THEN "Concluído" ELSE "Calculando...")
      ]_vars

(* A status answer for a session whose final report exists and whose       *)
(* collection report does not. *)
C9_Witness ==
    /\ lastResp.route = "status"
    /\ lastResp.body[1].current_step = 3
    /\ lastResp.body[1].step_status.step1 = "pending"
    /\ lastResp.body[1].step_status.step2 = "completed"

(* An <etapaN>_erro step has been recorded for the session. *)
ErrorRecorded(h, session_id) ==
    \E s \in DOMAIN h :
        \E i \in DOMAIN h[s] :
            /\ h[s][i].etapa.nome \in {"etapa1_erro", "etapa2_erro", "etapa3_erro"}
            /\ h[s][i].etapa.dados.session_id = session_id

(* C10: a status answer for session s carries the advisory error field     *)
(* when an <etapaN>_erro step has been recorded for s, and does not carry  *)
(* it otherwise.                                                           *)
C10_ErrorFieldAfterErrorStep ==
    [][ Answered("status") =>
          (ErrorRecorded(history, lastResp'.session_id)
              <=> "error" \in DOMAIN lastResp'.body[1])
      ]_vars

(* A status answer for a session with a recorded error step. *)
C10_Witness ==
    /\ lastResp.route = "status"
    /\ ErrorRecorded(history, lastResp.session_id)
    /\ "error" \notin DOMAIN lastResp.body[1]

(* C11: the download route answers 400 for a file_type that is neither     *)
(* final_report nor complete_report; for final_report it serves            *)
(* relatorio_final.md if it exists, else relatorio_final_completo.md if    *)
(* that exists, else 404; for complete_report it serves                    *)
(* relatorio_final_completo.md only, 404 when it is absent.                *)
C11_Download ==
    [][ Answered("download") =>
          LET sid == lastResp'.session_id
              final == marker_path(sid, "relatorio_final.md")
              completo == marker_path(sid, "relatorio_final_completo.md")
              served(path) == /\ lastResp'.code = 200
                              /\ Len(lastResp'.body) = 1
                              /\ lastResp'.body[1].file_path = path
              refused(code) == lastResp'.code = code /\ lastResp'.body = <<>>
          IN CASE lastResp'.req = "final_report" ->
                    IF Exists(markers, final) THEN served(final)
                    ELSE IF Exists(markers, completo) THEN served(completo)
                    ELSE refused(404)
               [] lastResp'.req = "complete_report" ->
                    IF Exists(markers, completo) THEN served(completo)
                    ELSE refused(404)
               [] OTHER -> refused(400)
      ]_vars

(* complete_report was asked for a session that has only relatorio_final.md *)
(* and the answer was 404. *)
C11_Witness ==
    /\ lastResp.route = "download"
    /\ lastResp.req = "complete_report"
    /\ lastResp.code = 404
    /\ Exists(markers, marker_path(lastResp.session_id, "relatorio_final.md"))

(* A call that changes a session has returned in this step: a save of a    *)
(* step, a module, a bulk payload or a screenshot, or a save of an error   *)
(* for a session that the in-memory map holds.                             *)
Mutated ==
    \/ Called("salvar_etapa")
    \/ Called("salvar_modulo")
    \/ Called("salvar_json_gigante")
    \/ Called("salvar_screenshot")
    \/ Called("salvar_erro") /\ lastOp'.session_id \in DOMAIN session_data
FileIsSession(uf, sd, session_id) ==
    /\ session_id \in DOMAIN uf
    /\ uf[session_id].parseable
    /\ uf[session_id].doc[1] = sd[session_id]

SaveCalls == {"salvar_etapa", "salvar_modulo", "salvar_json_gigante",
              "salvar_screenshot"}
SaveFailed ==
    /\ lastOp'.n # lastOp.n
    /\ lastOp'.op \in SaveCalls
    /\ \/ disk["analyses_data"] # "ok"
       \/ lastOp'.op = "salvar_etapa" /\ disk["relatorios_intermediarios"] # "ok"
ErrorsOf(sd, session_id) ==
    IF session_id \in DOMAIN sd THEN sd[session_id].metadata.errors ELSE <<>>

(* C13: a save call in which a file write fails returns "" and an Error    *)
(* Record of the failure is written, to the logs directory or to the       *)
(* error list of the session.                                              *)
C13_FailureRecorded ==
    [][ SaveFailed =>
          /\ lastOp'.ret = <<>>
          /\ \/ error_files' # error_files
             \/ ErrorsOf(session_data', lastOp'.session_id)
                    # ErrorsOf(session_data, lastOp'.session_id)
      ]_vars

(* A save of a step has returned "" after its rewrite of the unified file  *)
(* failed, and no Error Record exists anywhere.                            *)
C13_Witness ==
    /\ lastOp.op = "salvar_etapa" /\ lastOp.ret = <<>>
    /\ disk["analyses_data"] # "ok"
    /\ error_files = <<>>
    /\ ErrorsOf(session_data, lastOp.session_id) = <<>>

(* C14: with every directory writable, a save-error call writes the        *)
(* standalone error file and returns its path, and when a session id is    *)
(* given the Error Record is appended to the error list of that session    *)
(* and the unified file is rewritten, whether or not the in-memory map     *)
(* held the session.                                                       *)
C14_ErrorAlsoInSession ==
    [][ (Called("salvar_erro") /\ \A d \in StoreDirs : disk[d] = "ok") =>
          LET s == lastOp'.session_id
          IN /\ lastOp'.ret # <<>>
             /\ erro_path(lastOp'.nome, now) \in DOMAIN error_files'
             /\ s # None =>
                   /\ s \in DOMAIN session_data'
                   /\ Len(ErrorsOf(session_data', s))
                         = Len(ErrorsOf(session_data, s)) + 1
                   /\ FileIsSession(unified_file', session_data', s)
      ]_vars

(* An error was saved with the id of a session the in-memory map does not  *)
(* hold: the standalone file exists, the session does not.                 *)
C14_Witness ==
    /\ lastOp.op = "salvar_erro" /\ lastOp.ret # <<>>
    /\ lastOp.session_id \in Sessions
    /\ lastOp.session_id \notin DOMAIN session_data
    /\ lastOp.session_id \notin DOMAIN unified_file
    /\ error_files # <<>>

-----------------------------------------------------------------------------
(* The collection report: claim C15. *)

(* C15: the report assembly never raises and returns a non-empty document, *)
(* whatever fields of its inputs are missing or hold a value of another    *)
(* type, and whatever excerpt files are on disk.                            *)
C15_ReportNeverRaises ==
    report.pc = "done" =>
        /\ ~report.result.raised
        /\ report.result.text # <<>>

(* With every input empty the assembly returns a non-empty document. *)
C15_Witness ==
    /\ report.pc = "done"
    /\ report.search_results = EmptyDict
    /\ report.viral_analysis = EmptyDict
    /\ report.context = EmptyDict
    /\ report.files = <<>>
    /\ ~report.result.raised
    /\ report.result.text # <<>>

-----------------------------------------------------------------------------
(* The massive search engine: claims C16 to C18. *)

(* The size target is reached or fifty searches have been made. *)
TargetOrCap(e) == e.current_size >= min_size_kb \/ e.search_count >= 50
Searched == engine.pc = "loop" /\ engine'.pc = "loop"
LoopEnded == engine.pc = "loop" /\ engine'.pc = "done"

(* C16: the loop issues no search once the serialized size has reached the *)
(* target or fifty searches have been made, it ends only when one of the   *)
(* two holds, and total_searches never exceeds fifty.                       *)
C16_LoopEndsAtTargetOrCap ==
    [][ /\ Searched => ~TargetOrCap(engine)
        /\ LoopEnded => /\ TargetOrCap(engine)
                        /\ engine'.massive_data.total_searches <= 50 ]_vars

(* A run that ended after ten searches, below the size target. *)
C16_Witness ==
    /\ engine.pc = "done"
    /\ engine.massive_data.total_searches = max_searches
    /\ engine.current_size < min_size_kb

(* The search just made had a failing backend. *)
AdapterFailed == Searched /\ engine'.last = <<>>

(* C17: a search whose backend adapter fails adds no result and leaves the *)
(* loop running; the loop ends only after every query of the run was       *)
(* searched, and the run then returns the consolidated bundle, which the   *)
(* store has saved when its directory can be written, instead of raising.  *)
C17_AdapterFailureIsolated ==
    [][ /\ AdapterFailed =>
              /\ engine'.massive_data.alibaba_websailor_results
                     = engine.massive_data.alibaba_websailor_results
              /\ engine'.search_count = engine.search_count + 1
        /\ LoopEnded =>
              /\ engine.search_count = max_searches
              /\ engine'.ret.kind = "bundle"
              /\ engine'.ret.data.total_searches = max_searches
              /\ Len(engine'.ret.data.dados_consolidados_texto)
                     = Len(engine'.ret.data.alibaba_websailor_results)
              /\ disk["analyses_data"] = "ok" =>
                     /\ Exists(engine'.files, completas_file(engine.produto))
                     /\ engine'.files[completas_file(engine.produto)]
                            = Parsed(engine'.ret.data) ]_vars

(* A run in which some searches failed and others did not, ended with its  *)
(* bundle returned and saved.                                               *)
C17_Witness ==
    /\ engine.pc = "done"
    /\ engine.ret.kind = "bundle"
    /\ engine.ret.data.total_searches = max_searches
    /\ Len(engine.ret.data.alibaba_websailor_results) \in 1..(max_searches - 1)
    /\ engine.last = <<>>
    /\ Exists(engine.files, completas_file(engine.produto))

(* The bundle is on disk under the name RES_BUSCA_<PRODUCT>.json, in the   *)
(* store's directory or at the engine's own path.                           *)
BundleOnDisk(e) ==
    \E p \in {completas_file(e.produto), resultado_file(e.produto)} :
        /\ Exists(e.files, p)
        /\ e.files[p] = Parsed(e.ret.data)

(* C18: a completed run returns its bundle, and the bundle is on disk: the *)
(* one the store saved, or the one the engine wrote itself after the store *)
(* reported a failure.                                                      *)
C18_BundleAlwaysOnDisk ==
    engine.pc = "done" =>
        /\ engine.ret.kind = "bundle"
        /\ BundleOnDisk(engine)

(* A run whose bundle the store saved and the engine returned. *)
C18_Witness ==
    /\ engine.pc = "done"
    /\ disk["analyses_data"] = "ok"
    /\ engine.ret.kind = "bundle"
    /\ engine.files[completas_file(engine.produto)] = Parsed(engine.ret.data)

-----------------------------------------------------------------------------
(* The social image extractor: claims C19 and C20. *)

ListOf(envelope, platform) ==
    CASE platform = "facebook" -> envelope.facebook_images
      [] platform = "youtube" -> envelope.youtube_images
      [] OTHER -> envelope.instagram_images
HasLists(envelope) == "facebook_images" \in DOMAIN envelope

(* C19: in a returned envelope every platform list holds at most its quota *)
(* of ten, total_extracted is the sum of the three lengths and is at most  *)
(* thirty; the envelope of a failed call has no list and a total of zero.  *)
C19_QuotaAndTotal ==
    social.pc = "done" =>
        IF HasLists(social.ret)
        THEN /\ \A p \in Platforms :
                    Len(ListOf(social.ret, p)) <= limit_of(p)
             /\ social.ret.total_extracted =
                    Len(social.ret.facebook_images)
                    + Len(social.ret.instagram_images)
                    + Len(social.ret.youtube_images)
             /\ social.ret.total_extracted <= 30
        ELSE social.ret.total_extracted = 0

(* An envelope whose three lists were cut to their quota. *)
C19_Witness ==
    /\ social.pc = "done"
    /\ HasLists(social.ret)
    /\ social.ret.total_extracted = 30
    /\ ListOf(social.ret, "facebook")[facebook_limit] = <<"serper", 4>>

(* C20: a sub-task that ends changes the list of no other sub-task, and    *)
(* when the envelope is returned (its directory being writable) the list   *)
(* of every failed sub-task is empty, every list is the one its sub-task   *)
(* returned, and the envelope file has been written once with the envelope.*)
C20_SubTasksIsolated ==
    [][ /\ (social.pc = "gather" /\ social'.pc = "gather") =>
              \A p \in Platforms \ (social.pending \ social'.pending) :
                  social'.gathered[p] = social.gathered[p]
        /\ (social.pc = "gather" /\ social'.pc = "done"
                /\ social.dir = "ok") =>
              /\ HasLists(social'.ret)
              /\ \A p \in Platforms :
                    /\ ListOf(social'.ret, p) = social.gathered[p]
                    /\ p \in social.failed => ListOf(social'.ret, p) = <<>>
              /\ social'.writes = 1
              /\ social'.files[results_file(social.session_id)]
                     = Parsed(social'.ret) ]_vars

(* An envelope returned after one sub-task failed with images collected    *)
(* and the two others gave theirs.                                          *)
C20_Witness ==
    /\ social.pc = "done"
    /\ social.dir = "ok"
    /\ social.failed = {"facebook"}
    /\ social.ret.facebook_images = <<>>
    /\ social.ret.instagram_images # <<>>
    /\ social.ret.youtube_images # <<>>
    /\ Exists(social.files, results_file(social.session_id))

-----------------------------------------------------------------------------
(* Claims about the image finder.                                          *)
Returned(op) == finder'.last # finder.last /\ finder'.last.op = op
ImageUrls(s) == {s[i].image_url : i \in DOMAIN s}
FirstAt(s, u) == CHOOSE i \in DOMAIN s : s[i].image_url = u /\ \A j \in 1..(i - 1) : s[j].image_url # u

(* C21: search_images queries the first four platform-scoped variants in   *)
(* their order and returns a list in which no two entries share an image   *)
(* URL, no entry has an empty image URL, every entry is the first          *)
(* collected result of its URL, the entries keep the order in which their  *)
(* URLs were first collected, and there are at most max_images of them.    *)
C21_SearchImagesUnique ==
    [][ (finder.pc = "searching" /\ Returned("search_images")) =>
          LET images == finder'.last.images
              all == finder.all_results
          IN /\ finder.queried = SubSeq(queries, 1, 4)
             /\ Len(finder.queried) <= 4
             /\ \A i, j \in DOMAIN images :
                    i # j => images[i].image_url # images[j].image_url
             /\ \A i \in DOMAIN images : images[i].image_url # ""
             /\ \A i \in DOMAIN images :
                    images[i] = all[FirstAt(all, images[i].image_url)]
             /\ \A i, j \in DOMAIN images :
                    i < j => FirstAt(all, images[i].image_url)
                               < FirstAt(all, images[j].image_url)
             /\ Len(images) <= finder.max_images
             /\ Len(images) = IF Cardinality(ImageUrls(all) \ {""}) < finder.max_images
                              THEN Cardinality(ImageUrls(all) \ {""})
                              ELSE finder.max_images ]_vars

(* A search that collected a repeated URL, an empty URL and more distinct  *)
(* URLs than the cap has returned.                                         *)
C21_Witness ==
    /\ finder.pc = "ready"
    /\ finder.last.op = "search_images"
    /\ Len(finder.last.collected) > Cardinality(ImageUrls(finder.last.collected))
    /\ "" \in ImageUrls(finder.last.collected)
    /\ Cardinality(ImageUrls(finder.last.collected) \ {""}) > finder.max_images
    /\ Len(finder.last.images) = finder.max_images

(* C22: the viral score is min(10, 5 + one per keyword that is a substring *)
(* of the lower-cased title + 2 for a link with instagram.com,             *)
(* facebook.com or youtube.com in it), so it lies between 5 and 10; a      *)
(* title with only 'viral' on instagram.com scores 8, and three keywords   *)
(* or more on a social link score 10.                                      *)
KeywordsIn(t) ==
    Cardinality({k \in 1..8 : Contains(lower(t), viral_keywords[k])})
OnSocial(link) ==
    \/ Contains(link, <<"i", "n", "s", "t", "a", "g", "r", "a", "m", ".", "c", "o", "m">>)
    \/ Contains(link, <<"f", "a", "c", "e", "b", "o", "o", "k", ".", "c", "o", "m">>)
    \/ Contains(link, <<"y", "o", "u", "t", "u", "b", "e", ".", "c", "o", "m">>)
C22_ViralScore ==
    finder.last.op = "calculate_viral_score" =>
        LET item == finder.last.item
            score == finder.last.score
            sum == 5 + KeywordsIn(item.title) + (IF OnSocial(item.link) THEN 2 ELSE 0)
        IN /\ score = IF sum < 10 THEN sum ELSE 10
           /\ score >= 5 /\ score <= 10
           /\ (KeywordsIn(item.title) = 1 /\ OnSocial(item.link)) => score = 8
           /\ (KeywordsIn(item.title) >= 3 /\ OnSocial(item.link)) => score = 10

(* A title with four keywords on a social link has been scored at the cap, *)
(* where the sum is 11.                                                    *)
C22_Witness ==
    /\ finder.last.op = "calculate_viral_score"
    /\ KeywordsIn(finder.last.item.title) = 4
    /\ OnSocial(finder.last.item.link)
    /\ finder.last.score = 10

(* C30: _get_next_api_key returns a key whose identifier is not in the     *)
(* failed set, or None exactly when the service has no key or every key of *)
(* it has failed; the cursor stays within the key list; with nothing       *)
(* failed a call returns the key at the cursor and moves the cursor one    *)
(* further cyclically, so K calls over K keys return the K keys in cyclic  *)
(* order; and no step takes anything out of the failed set.                *)
KeysOf(f, service) ==
    IF service \in DOMAIN f.nkeys THEN {service} \X (0..(f.nkeys[service] - 1)) ELSE {}
C30_KeyRotation ==
    [][ /\ finder.pc # "idle" => finder.failed \subseteq finder'.failed
        /\ finder.pc # "idle" =>
             \A s \in Services :
                 finder'.nkeys[s] > 0 => finder'.cursor[s] \in 0..(finder'.nkeys[s] - 1)
        /\ Returned("get_next_api_key") =>
             LET service == finder'.last.service
                 key == finder'.last.key
                 keys == KeysOf(finder, service)
             IN /\ key # NoKey => key \in keys \ finder.failed
                /\ key = NoKey <=> keys \subseteq finder.failed
                /\ (keys # {} /\ keys \cap finder.failed = {}) =>
                       /\ key = <<service, finder.cursor[service]>>
                       /\ finder'.cursor[service]
                            = (finder.cursor[service] + 1) % finder.nkeys[service] ]_vars

(* A call has skipped a failed key at the cursor and returned the next one. *)
C30_Witness ==
    /\ finder.pc = "ready"
    /\ finder.last.op = "get_next_api_key"
    /\ finder.last.service = "serper"
    /\ finder.nkeys.serper = 3
    /\ finder.failed = {<<"serper", 0>>}
    /\ finder.last.key = <<"serper", 1>>
    /\ finder.cursor.serper = 2

-----------------------------------------------------------------------------
(* Claims about the orchestrator and the result processor.                 *)

(* C23: execute_workflow never raises to its caller: whatever the context  *)
(* derivation, the two search adapters, the deduplication, the result      *)
(* processor and the report generator do, the call ends with a map of      *)
(* status 'success' (data, report, execution_time) or of status 'error'    *)
(* (message, session_id).                                                  *)
C23_WorkflowNeverRaises ==
    /\ orch.pc # "raised"
    /\ orch.pc = "returned" =>
         /\ orch.out # <<>>
         /\ \/ /\ orch.out[1].status = "success"
               /\ orch.out[1].fields = {"status", "data", "report", "execution_time"}
            \/ /\ orch.out[1].status = "error"
               /\ orch.out[1].fields = {"status", "message", "session_id"}

(* A collaborator inside the try has raised and the call returned the      *)
(* error map.                                                              *)
C23_Witness ==
    /\ orch.pc = "returned"
    /\ orch.out # <<>>
    /\ orch.out[1].status = "error"
    /\ orch.out[1].session_id \in Sessions

(* C24: process_results drops a raw result exactly when it has neither a   *)
(* title nor a link, keeps every result that has one of the two, and keeps *)
(* the kept results in their input order.                                  *)
HasTitle(result) == result.title # <<>> /\ result.title # <<"N/A">>
HasLink(result) == result.link # <<>>
KeptByClaim(results) ==
    SelectSeq(results, LAMBDA result : HasTitle(result) \/ HasLink(result))
C24_DropsOnlyWhenNeither ==
    (orch.pc = "ready" /\ orch.last.op = "process_results") =>
        LET kept == KeptByClaim(orch.last.results)
        IN /\ Len(orch.last.ret) = Len(kept)
           /\ \A i \in DOMAIN kept : orch.last.ret[i].source = kept[i].source

(* A list with a result that has a title and no link has been processed.   *)
C24_Witness ==
    /\ orch.pc = "ready"
    /\ orch.last.op = "process_results"
    /\ Len(orch.last.results) = 2
    /\ orch.last.results[1].title = <<"Kit ">> /\ orch.last.results[1].link = <<>>
    /\ orch.last.results[2].title = <<"Kit ">> /\ orch.last.results[2].link # <<>>
    /\ Len(orch.last.ret) = 1
    /\ orch.last.ret[1].source = orch.last.results[2].source

-----------------------------------------------------------------------------
(* Claims about the Instagram extractor.                                   *)
At(log, e) == {i \in DOMAIN log : log[i] = e}

(* C25: the login looks for the avatar first, then tries the session       *)
(* cookie, then the user name and password, each only when nothing before  *)
(* it authenticated; the extraction opens the hashtag page and downloads   *)
(* only after an authenticated login; and when the login fails, the        *)
(* unusual-activity page included, it collects and downloads nothing.      *)
C25_LoginBeforeExtraction ==
    insta.pc # "idle" =>
        LET log == insta.log
        IN /\ log # <<>> => log[1] = "goto_home"
           /\ \A i \in At(log, "add_cookie") :
                  /\ insta.session_cookie
                  /\ i = 3 /\ log[2] = "avatar_check"
           /\ \A i \in At(log, "fill_credentials") :
                  /\ insta.credentials
                  /\ At(log, "avatar_check") \cap (1..(i - 1)) # {}
                  /\ insta.session_cookie => At(log, "add_cookie") \cap (1..(i - 1)) # {}
           /\ \A i \in At(log, "add_cookie") \cup At(log, "fill_credentials") :
                  At(log, "avatar_found") \cap (1..i) = {}
           /\ \A i \in At(log, "goto_hashtag") \cup At(log, "download") :
                  /\ insta.logged_in
                  /\ At(log, "avatar_found") \cap (1..(i - 1)) # {}
           /\ (insta.pc \in {"failed", "returned"} /\ ~insta.logged_in) =>
                  /\ insta.images = <<>>
                  /\ At(log, "goto_hashtag") = {} /\ At(log, "download") = {}
           /\ At(log, "unusual_activity") # {} => ~insta.logged_in

(* A login that went through the three ways and ended on the               *)
(* unusual-activity page has made the extraction return nothing.           *)
C25_Witness ==
    /\ insta.pc = "returned"
    /\ insta.log = <<"goto_home", "avatar_check", "add_cookie", "avatar_check",
                     "fill_credentials", "unusual_activity">>
    /\ insta.images = <<>>

-----------------------------------------------------------------------------
(* C26: for every query the loop of execute_massive_search has processed,  *)
(* the WebSailor backend and the real-search orchestrator backend were     *)
(* each called exactly once, and every non-null result was appended to the *)
(* list of its own backend.                                                *)
CallsOf(query, backend) ==
    {i \in DOMAIN engine.calls : engine.calls[i] = <<query, backend>>}
C26_BothBackendsPerQuery ==
    engine.pc \in {"loop", "done"} =>
        /\ \A n \in 1..engine.search_count :
              /\ Cardinality(CallsOf(generate_search_queries[n], "alibaba_websailor")) = 1
              /\ Cardinality(CallsOf(generate_search_queries[n], "real_search_orchestrator")) = 1
        /\ \A i \in DOMAIN engine.massive_data.alibaba_websailor_results :
              engine.massive_data.alibaba_websailor_results[i].api = "alibaba_websailor"
        /\ \A i \in DOMAIN engine.massive_data.real_search_orchestrator_results :
              engine.massive_data.real_search_orchestrator_results[i].api
                  = "real_search_orchestrator"

(* The loop has processed a query whose WebSailor result joined its list.  *)
C26_Witness ==
    /\ engine.pc = "loop"
    /\ engine.search_count = 1
    /\ engine.calls = <<<<generate_search_queries[1], "alibaba_websailor">>>>
    /\ Len(engine.massive_data.alibaba_websailor_results) = 1
    /\ engine.massive_data.real_search_orchestrator_results = <<>>

-----------------------------------------------------------------------------
(* C27: two threads that save concurrently on one session, the first write *)
(* to it included, lose no update: once both calls have returned, the      *)
(* session in memory and its unified file hold the steps of both.          *)
BothReturned == threads # <<>> /\ \A t \in Threads : threads.t[t].pc = "done"
StepsIn(s) == {s[i] : i \in DOMAIN s}
C27_NoLostUpdate ==
    BothReturned =>
        \A t \in Threads :
            /\ threads.t[t].nome \in StepsIn(threads.mem[1])
            /\ threads.t[t].nome \in StepsIn(threads.file[1])

(* Both calls were the first write to the session and have returned, and   *)
(* memory and file hold both steps.                                        *)
C27_Witness ==
    /\ BothReturned
    /\ threads.first_write
    /\ Len(threads.mem[1]) = 2
    /\ threads.file = threads.mem

-----------------------------------------------------------------------------
(* C28: every step a workflow route or its background task writes for a    *)
(* run is appended to the steps of the session whose id the route gave to  *)
(* or got from the client (the session_id the step carries in its data),   *)
(* so that recovering that session finds the step.                         *)
RunSession == lastOp'.dados.session_id
C28_StepInRunSession ==
    [][ (Called("salvar_etapa") /\ lastOp'.categoria = "workflow"
                                /\ lastOp'.ret # <<>>) =>
          /\ lastOp'.session_id = RunSession
          /\ \E i \in DOMAIN StepsOf(session_data', RunSession) :
                StepsOf(session_data', RunSession)[i].nome = lastOp'.nome
          /\ recuperar_etapa(unified_file', session_data', RunSession, lastOp'.nome)
                # <<>> ]_vars

(* A step of the run of session s1 has been written by the store, under    *)
(* whatever session the store chose.                                       *)
C28_Witness ==
    /\ lastOp.op = "salvar_etapa"
    /\ lastOp.categoria = "workflow"
    /\ lastOp.nome = "etapa1_iniciada"
    /\ lastOp.dados.session_id \in ClientIds
    /\ lastOp.session_id \in DOMAIN session_data

-----------------------------------------------------------------------------
(* C29: every web-research excerpt saved through the store for a session   *)
(* and written to its file is found by the loader of that session, and so  *)
(* is in the session's report; the loader brings no excerpt of another     *)
(* session.                                                                *)
SavedExcerpts(session_id) ==
    {e \in Range(StepsOf(session_data, session_id)) :
        e.categoria = "pesquisa_web" /\ InMirror(e)}
C29_SavedExcerptsLoaded ==
    report.pc = "loaded" =>
        /\ SavedExcerpts(report.session_id) \subseteq Range(report.excerpts)
        /\ \A s \in Sessions \ {report.session_id} :
              SavedExcerpts(s) \cap Range(report.excerpts) = {}

(* An excerpt of the session was saved, its file written, and the loader   *)
(* has run for the session.                                                *)
C29_Witness ==
    /\ report.pc = "loaded"
    /\ SavedExcerpts(report.session_id) # {}

-----------------------------------------------------------------------------
(* C31: a search of the primary backend, with other callers on the shared  *)
(* finder or without, enters the fallback chain only after it has tried    *)
(* every configured key of the backend that is not marked failed.          *)
C31_FallbackAfterEveryKey ==
    finder.pc = "shared" =>
        \A c \in Callers :
            threads[c].pc = "fallback" =>
                (KeysOf(finder, "serper") \ finder.failed) \subseteq threads[c].tried

(* A search has gone through all three keys without results and entered   *)
(* the fallback chain.                                                     *)
C31_Witness ==
    /\ finder.pc = "shared"
    /\ finder.nkeys.serper = 3 /\ finder.failed = {}
    /\ \E c \in Callers :
         /\ threads[c].pc = "fallback"
         /\ threads[c].tried = KeysOf(finder, "serper")

-----------------------------------------------------------------------------
(* C32: the fallbacks are asked in the order JINA, EXA, web, a later one   *)
(* only when every earlier one brought nothing; the search returns exactly *)
(* what the first fallback with a result brought, and [] when none brings  *)
(* anything; the records of JINA carry the score 6.0, those of EXA 6.5,    *)
(* those of the web fetch 5.0.                                             *)
Brought(answer) == ~answer.fails /\ answer.items > 0
C32_FallbackChain ==
    finder.last.op = "fallbacks" =>
        LET a == finder.last.answers
            invoked == finder.last.invoked
            results == finder.last.results
        IN /\ invoked = SubSeq(<<"jina_fallback", "exa_fallback", "web_fallback">>,
                               1, Len(invoked))
           /\ Len(invoked) >= 1
           /\ \A k \in DOMAIN invoked : \A j \in 1..(k - 1) : ~Brought(a[j])
           /\ Len(invoked) < 3 => Brought(a[Len(invoked)])
           /\ IF \E k \in 1..3 : Brought(a[k])
              THEN /\ Brought(a[Len(invoked)])
                   /\ Len(results) = a[Len(invoked)].items
                   /\ \A i \in DOMAIN results :
                         results[i].source = invoked[Len(invoked)]
              ELSE results = <<>>
           /\ \A i \in DOMAIN results :
                 results[i].viral_score =
                     CASE results[i].source = "jina_fallback" -> 60
                       [] results[i].source = "exa_fallback" -> 65
                       [] results[i].source = "web_fallback" -> 50

(* JINA failed, EXA brought two records that were returned, and the web    *)
(* fetch, which would have brought one, was not asked.                     *)
C32_Witness ==
    /\ finder.last.op = "fallbacks"
    /\ finder.last.answers[1].fails
    /\ Brought(finder.last.answers[3])
    /\ finder.last.invoked = <<"jina_fallback", "exa_fallback">>
    /\ Len(finder.last.results) = 2
    /\ finder.last.results[1].viral_score = 65

-----------------------------------------------------------------------------
(* C33: whenever the first backend of the Facebook or YouTube sub-task     *)
(* gives fewer images than the quota, a non-success answer and a failure   *)
(* included, the images of the top-up backend are added and the list is    *)
(* kept up to the quota.                                                   *)
ImagesOf(result) == IF result.kind = "list" THEN result.images ELSE <<>>
C33_TopUpWhenShort ==
    (/\ social.pc = "subtask" /\ social.platform # "none"
     /\ Len(ImagesOf(social.first)) < limit_of(social.platform)
     /\ social.second.kind = "list") =>
        social.ret = limit_to(ImagesOf(social.first) \o social.second.images,
                              limit_of(social.platform))

(* The first backend gave six images and the top-up twelve: ten are kept,  *)
(* four of them from the top-up.                                           *)
C33_Witness ==
    /\ social.pc = "subtask"
    /\ social.platform = "facebook"
    /\ social.first.kind = "list" /\ Len(social.first.images) = 6
    /\ social.second.kind = "list" /\ Len(social.second.images) = 12
    /\ Len(social.ret) = 10
    /\ social.ret[7] = <<"serper", 1>>

-----------------------------------------------------------------------------
(* C34: in the local MassiveSearchEngine one failing source does not stop  *)
(* the others: an adapter that is not registered is skipped, and when one  *)
(* adapter raises, the results of the other adapter are still returned.    *)
ResultsOf(outcome) == IF outcome.kind = "list" THEN outcome.results ELSE <<>>
C34_SourcesIsolated ==
    (orch.pc = "local" /\ orch.called) =>
        orch.ret = ResultsOf(orch.google) \o ResultsOf(orch.bing)

(* Google is not registered and Bing returned three results, which are     *)
(* returned.                                                               *)
C34_Witness ==
    /\ orch.pc = "local" /\ orch.called
    /\ orch.google.kind = "absent"
    /\ orch.bing.kind = "list"
    /\ Len(orch.ret) = 3
    /\ orch.ret = orch.bing.results

-----------------------------------------------------------------------------
(* C35: execute_workflow includes the massive-search adapter's results in  *)
(* the merged set for each shape the adapters of this repository return    *)
(* (the local engine's list, and the two principal result lists of the     *)
(* service's bundle), and with working collaborators the run ends with     *)
(* status 'success'.                                                        *)
AdapterItems(value) ==
    IF value.kind = "list" THEN value.items
    ELSE IF value.busca_massiva = <<>> THEN <<>>
         ELSE value.busca_massiva[1].alibaba_websailor_results
                \o value.busca_massiva[1].real_search_orchestrator_results
C35_AdapterResultsMerged ==
    (orch.pc = "adapters" /\ orch.called /\ orch.rest = "returns") =>
        /\ orch.out.status = "success"
        /\ \A i \in DOMAIN AdapterItems(orch.call.value) :
              \E j \in DOMAIN orch.combined :
                  orch.combined[j] = AdapterItems(orch.call.value)[i]

(* The service's engine returned a bundle with two collected results and   *)
(* every other collaborator worked.                                        *)
C35_Witness ==
    /\ orch.pc = "adapters" /\ orch.called /\ orch.rest = "returns"
    /\ orch.call.adapter = "service"
    /\ Len(AdapterItems(orch.call.value)) = 2
    /\ orch.out.status = "success"

-----------------------------------------------------------------------------
(* C36: _consolidate_all_saved_data always returns the bundle with the     *)
(* consolidated object attached, and that object holds an entry for every  *)
(* parseable web-research excerpt file of the session's research directory *)
(* (consolidado.json and each excerpt file); a missing directory or an     *)
(* unparseable file is skipped.                                            *)
ParseableExcerpts(research) ==
    IF ~research.exists \/ research.session = <<>> THEN {}
    ELSE {ResearchNames[i] : i \in {j \in 1..Len(ResearchNames) :
              research.session[1][j] = "ok" /\ endswith_json(ResearchNames[j])}}
Collected(d) ==
    IF "trechos_pesquisa_web" \in DOMAIN d
    THEN {d["trechos_pesquisa_web"][i].arquivo_origem :
             i \in DOMAIN d["trechos_pesquisa_web"]}
    ELSE {}
C36_ExcerptsConsolidated ==
    (engine.pc = "consolidate" /\ engine.called) =>
        /\ engine.ret.dados_consolidados_texto # <<>>
        /\ Collected(engine.ret.dados_consolidados_texto[1])
              = ParseableExcerpts(engine.research)

(* The session's directory holds a parseable consolidado.json, a parseable *)
(* excerpt and an unparseable one; the bundle comes back with the object.  *)
C36_Witness ==
    /\ engine.pc = "consolidate" /\ engine.called
    /\ engine.research.exists /\ engine.research.session # <<>>
    /\ engine.research.session[1][1] = "ok"
    /\ engine.research.session[1][2] = "ok"
    /\ engine.research.session[1][3] = "bad"
    /\ engine.ret.dados_consolidados_texto # <<>>

-----------------------------------------------------------------------------
(* C37: the metadata of a session only grows: processing_phases holds      *)
(* exactly once the category of every recorded step, and the error list    *)
(* keeps every Error Record, whatever save-bulk payloads (those carrying a *)
(* metadata key included) are applied to the session.                      *)
PhasesOf(sd, session_id) == sd[session_id].metadata.processing_phases
EachCategoryOnce(sd, session_id) ==
    \A i \in DOMAIN StepsOf(sd, session_id) :
        Cardinality({j \in DOMAIN PhasesOf(sd, session_id) :
                        PhasesOf(sd, session_id)[j]
                            = StepsOf(sd, session_id)[i].categoria}) = 1
C37_MetadataOnlyGrows ==
    [][ \A sid \in DOMAIN session_data \cap DOMAIN session_data' :
          /\ EachCategoryOnce(session_data', sid)
          /\ IsPrefix(ErrorsOf(session_data, sid), ErrorsOf(session_data', sid))
      ]_vars

(* A save-bulk call has been applied to a session that has a recorded step *)
(* and whose list of phases is now empty.                                  *)
C37_Witness ==
    /\ lastOp.op = "salvar_json_gigante"
    /\ lastOp.session_id \in DOMAIN session_data
    /\ StepsOf(session_data, lastOp.session_id) # <<>>
    /\ PhasesOf(session_data, lastOp.session_id) = <<>>

-----------------------------------------------------------------------------
(* C38: the image download keeps a file exactly when it is at least 1000   *)
(* bytes: a file that lands under 1000 bytes is deleted and no path is     *)
(* returned, a file of 1000 bytes or more is kept and its path returned,   *)
(* and a response whose content type does not contain 'image' writes no    *)
(* file.                                                                    *)
Downloaded ==
    finder.pc = "download" /\ finder.called /\ finder.download.http_ok
C38_KeepsFromThousandBytes ==
    Downloaded =>
        IF is_image(finder.download.content_type)
              /\ finder.download.written >= 1000
        THEN /\ finder.file # <<>>
             /\ finder.ret = <<finder.file[1].path>>
        ELSE finder.file = <<>> /\ finder.ret = <<>>

(* A PNG of 2000 bytes was downloaded whole, kept and its path returned.   *)
C38_Witness ==
    /\ Downloaded
    /\ finder.download.content_type = "image/png"
    /\ finder.download.size = 2000 /\ finder.download.written = 2000
    /\ finder.file = <<[path |-> <<"img_1", ".png">>, bytes |-> 2000]>>
    /\ finder.ret = <<<<"img_1", ".png">>>>

=============================================================================
